---------------------------- MODULE Spec2Model ----------------------------
(***************************************************************************)
(* A model of libgdsii: the 8-byte real codec (utils.py), the record      *)
(* codec (records.py), and the stream reader and the load / write / draw  *)
(* methods of the object model (library.py).                               *)
(*                                                                         *)
(* Streams are sequences of bytes (0..255).  A Python float is modelled    *)
(* exactly as sign * sig * 2^exp with sig a 53-bit sequence whose first    *)
(* bit is 1; zero is the float with the empty sig (Python's == does not    *)
(* tell -0.0 from 0.0, neither does the model).                            *)
(***************************************************************************)
EXTENDS Integers, Sequences, FiniteSets, TLC

-----------------------------------------------------------------------------
(* Bits and bytes *)

Pow2(n) == 2 ^ n

\* the 8 bits of a byte, most significant first
ByteBits(b) == [i \in 1..8 |-> (b \div Pow2(8 - i)) % 2]

\* the bits of the bytes, in order
BytesToBits(bs) == [i \in 1..(8 * Len(bs)) |-> ByteBits(bs[(i + 7) \div 8])[((i - 1) % 8) + 1]]

\* the byte whose bits are bits[k .. k+7]
BitsToByte(bits, k) ==
    bits[k] * 128 + bits[k + 1] * 64 + bits[k + 2] * 32 + bits[k + 3] * 16
    + bits[k + 4] * 8 + bits[k + 5] * 4 + bits[k + 6] * 2 + bits[k + 7]

BitsToBytes(bits) == [i \in 1..(Len(bits) \div 8) |-> BitsToByte(bits, 8 * (i - 1) + 1)]

Zeros(n) == [i \in 1..n |-> 0]

AllZero(bits) == \A i \in 1..Len(bits) : bits[i] = 0

\* the number of leading zero bits
LeadingZeros(bits) ==
    IF AllZero(bits) THEN Len(bits)
    ELSE (CHOOSE i \in 1..Len(bits) : bits[i] = 1 /\ \A j \in 1..(i - 1) : bits[j] = 0) - 1

\* bits + 1, of the same length (the carry out of the first bit is dropped)
RECURSIVE BitsInc(_)
BitsInc(bits) ==
    IF bits = <<>> THEN <<>>
    ELSE LET n == Len(bits)
         IN  IF bits[n] = 0 THEN SubSeq(bits, 1, n - 1) \o <<1>>
             ELSE BitsInc(SubSeq(bits, 1, n - 1)) \o <<0>>

-----------------------------------------------------------------------------
(* Floats *)

SigBits == 53

FloatZero == [sgn |-> 1, sig |-> <<>>, exp |-> 0]

\* Python's int -> float conversion (round to nearest, ties to even) of the
\* unsigned integer whose bits are given, times sgn * 2^scale
IntToFloat(sgn, bits, scale) ==
    LET lz == LeadingZeros(bits)
        n  == Len(bits) - lz
        s  == SubSeq(bits, lz + 1, Len(bits))
    IN  IF n = 0 THEN FloatZero
        ELSE IF n <= SigBits
        THEN [sgn |-> sgn, sig |-> s \o Zeros(SigBits - n), exp |-> scale - (SigBits - n)]
        ELSE LET top  == SubSeq(s, 1, SigBits)
                 rest == SubSeq(s, SigBits + 1, n)
                 half == rest[1] = 1 /\ AllZero(Tail(rest))
                 up   == rest[1] = 1 /\ (~half \/ top[SigBits] = 1)
             IN  IF ~up THEN [sgn |-> sgn, sig |-> top, exp |-> scale + (n - SigBits)]
                 ELSE IF \A i \in 1..SigBits : top[i] = 1
                 THEN [sgn |-> sgn, sig |-> <<1>> \o Zeros(SigBits - 1),
                       exp |-> scale + (n - SigBits) + 1]
                 ELSE [sgn |-> sgn, sig |-> BitsInc(top), exp |-> scale + (n - SigBits)]

\* eight_byte_real_to_float with the exponent read as excess-63
eight_byte_real_to_float_excess63(value) ==
    LET exponent == value[1]
        sgn      == IF exponent >= 128 THEN -1 ELSE 1
        e        == (exponent % 128) - 63
        mantissa == BytesToBits(SubSeq(value, 2, 8))
    IN  IntToFloat(sgn, mantissa, 4 * e - 56)

\* utils.eight_byte_real_to_float: value is a sequence of 8 bytes
eight_byte_real_to_float(value) ==
    LET exponent == value[1]
        sgn      == IF exponent >= 128 THEN -1 ELSE 1
        e        == (exponent % 128) - 64
        mantissa == BytesToBits(SubSeq(value, 2, 8))
    IN  IntToFloat(sgn, mantissa, 4 * e - 56)

\* floor(log2(|v|)) of a nonzero float
FloorLog2(v) == (SigBits - 1) + v.exp

IsPowerOfTwo(v) == AllZero(Tail(v.sig))

\* floor(log2(n)) of an integer n >= 1
RECURSIVE IntLog2(_)
IntLog2(n) == IF n <= 1 THEN 0 ELSE 1 + IntLog2(n \div 2)

Abs(n) == IF n < 0 THEN 0 - n ELSE n

\* the value of the bits of sig after its first one when only its last 7 bits
\* are set, 128 otherwise
LowFraction(v) ==
    IF AllZero(SubSeq(v.sig, 2, SigBits - 7))
    THEN BitsToByte(<<0>> \o SubSeq(v.sig, SigBits - 6, SigBits), 1)
    ELSE 128

\* np.log2 rounds to nearest: for |v| = 2^p * (1 + k * 2^-52) with k at most
\* this, the logarithm p + log2(1 + k * 2^-52) rounds to the float p
\* (k < ln(2) * 2^(g-1), the spacing of the floats next to p being 2^(g-52))
Log2RoundsDown(p) ==
    LET a == Abs(p)
        g == IF p < 0 /\ Pow2(IntLog2(a)) = a THEN IntLog2(a) - 1 ELSE IntLog2(a)
    IN  IF p = 0 \/ g < 1 THEN 0 ELSE (693147 * Pow2(g - 1)) \div 1000000

\* int(np.ceil(np.log2(value) / 4))
CeilLog16(v) ==
    IF IsPowerOfTwo(v) \/ LowFraction(v) <= Log2RoundsDown(FloorLog2(v))
    THEN 0 - ((0 - FloorLog2(v)) \div 4)
    ELSE (FloorLog2(v) \div 4) + 1

\* struct.pack(">Q", int(mantissa))[1:] where mantissa = value / 16 ** exponent * 2 ** 56:
\* the low 56 bits of the 64-bit big-endian integer sig * 2^sh
PackedMantissa(v, exponent) ==
    LET sh   == v.exp - 4 * exponent + 56
        m    == IF sh >= 0 THEN v.sig \o Zeros(sh) ELSE SubSeq(v.sig, 1, SigBits + sh)
        full == IF Len(m) <= 64 THEN Zeros(64 - Len(m)) \o m
                ELSE SubSeq(m, Len(m) - 63, Len(m))
    IN  BitsToBytes(SubSeq(full, 9, 64))

\* utils.float_to_eight_byte_real: [ok, bytes]; ok is FALSE where struct.pack(">B", ...)
\* raises struct.error
float_to_eight_byte_real(value) ==
    IF value = FloatZero THEN [ok |-> TRUE, bytes |-> <<0, 0, 0, 0, 0, 0, 0, 0>>]
    ELSE LET sgn      == IF value.sgn < 0 THEN 1 ELSE 0
             exponent == CeilLog16(value)
             biased   == exponent + 64
         IN  IF biased < 0 \/ biased > 255 THEN [ok |-> FALSE, bytes |-> <<>>]
             ELSE [ok |-> TRUE,
                   bytes |-> <<(biased % 128) + 128 * sgn>> \o PackedMantissa(value, exponent)]

-----------------------------------------------------------------------------
(* The codec on its own: decode an 8-byte real, encode the float, decode again *)

VARIABLES
    cpc,      \* "input" | "decoded" | "encoded" | "raised" | "done" | "idle"
    cbytes,   \* the 8 bytes given to eight_byte_real_to_float (<<>>: none, the float was given)
    cfloat,   \* the float decoded from cbytes, or the float given
    cenc,     \* float_to_eight_byte_real(cfloat)
    cfloat2   \* eight_byte_real_to_float(cenc)

(* A program that loads a stream and writes or draws the library *)
VARIABLES
    fixture,       \* the description of the input stream
    input,         \* the bytes of the input stream
    phase,         \* "start" | "loaded" | "written" | "renamed" | "drawn" | "idle"
    loaded,        \* Library.load_from_file(stream): the reader at its end and the library
    written,       \* the output stream of Library.write and the exception it raised
    draw_options,  \* the scale and the options given to Library.draw
    drawn          \* the exception Library.draw raised and what it put on the surfaces

(* A program that builds an element with the constructors, assigns its     *)
(* coordinates and writes a library that holds it                          *)
VARIABLES
    built          \* the call made last, the element, and the exception the call raised

(* A program that calls the methods of a Reader over a stream *)
VARIABLES
    reader,        \* the Reader
    calls          \* the calls made, each with the reader before it and what it returned

(* A program that reads a record of bit flags with its record class and   *)
(* packs the record object                                                 *)
VARIABLES
    word,          \* the record class and the 16-bit word of the record
    flags,         \* the record object that the read classmethod has returned
    packed         \* what the pack method of the record object has returned

codecVars == <<cpc, cbytes, cfloat, cenc, cfloat2>>
ioVars == <<fixture, input, phase, loaded, written, draw_options, drawn>>
buildVars == <<built>>
readerVars == <<reader, calls>>
flagVars == <<word, flags, packed>>
vars ==
    <<cpc, cbytes, cfloat, cenc, cfloat2,
      fixture, input, phase, loaded, written, draw_options, drawn, built, reader, calls,
      word, flags, packed>>

\* b'>A\x897K\xc6\xa7\xf0'
Bytes0001 == <<62, 65, 137, 55, 75, 198, 167, 240>>

\* the Python float 0.001: 0x10624DD2F1A9FC * 2^-62 (IEEE 754 0x3F50624DD2F1A9FC)
Float0001 ==
    [sgn |-> 1, sig |-> SubSeq(BytesToBits(<<16, 98, 77, 210, 241, 169, 252>>), 4, 56),
     exp |-> -62]

\* the Python float 1.0 and float -1.0, the ends of random.uniform(-1, 1)
FloatOne == [sgn |-> 1, sig |-> <<1>> \o Zeros(SigBits - 1), exp |-> 1 - SigBits]
FloatMinusOne == [sgn |-> -1, sig |-> <<1>> \o Zeros(SigBits - 1), exp |-> 1 - SigBits]

ExponentBytes == {0, 61, 62, 64, 65, 66, 127, 190, 193, 194}
FirstMantissaBytes == {0, 1, 15, 16, 17, 32, 65, 128, 255}
MantissaTails ==
    { <<0, 0, 0, 0, 0, 0>>, <<0, 0, 0, 0, 0, 1>>, <<0, 0, 0, 0, 0, 8>>, <<0, 0, 0, 0, 0, 16>>,
      <<0, 0, 0, 0, 0, 12>>, <<255, 255, 255, 255, 255, 255>>, <<255, 255, 255, 255, 255, 252>>,
      <<137, 55, 75, 198, 167, 240>>, <<1, 2, 3, 4, 5, 6>> }

CodecInputs ==
    { <<e, m>> \o t : e \in ExponentBytes, m \in FirstMantissaBytes, t \in MantissaTails }
    \cup {Bytes0001}

\* a normalized 8-byte real: the first hex digit of the mantissa is not 0, or
\* the mantissa is 0
ValidReal(value) == value[2] >= 16 \/ AllZero(BytesToBits(SubSeq(value, 2, 8)))

FloatInputs == {Float0001, FloatOne, FloatMinusOne, FloatZero}

-----------------------------------------------------------------------------
(* gdstypes.py: the enumerations *)

RecordType ==
    [HEADER |-> 0, BGNLIB |-> 1, LIBNAME |-> 2, UNITS |-> 3, ENDLIB |-> 4, BGNSTR |-> 5,
     STRNAME |-> 6, ENDSTR |-> 7, BOUNDARY |-> 8, PATH |-> 9, SREF |-> 10, AREF |-> 11,
     TEXT |-> 12, LAYER |-> 13, DATATYPE |-> 14, WIDTH |-> 15, XY |-> 16, ENDEL |-> 17,
     SNAME |-> 18, COLROW |-> 19, TEXTNODE |-> 20, NODE |-> 21, TEXTTYPE |-> 22,
     PRESENTATION |-> 23, SPACING |-> 24, STRING |-> 25, STRANS |-> 26, MAG |-> 27,
     ANGLE |-> 28, UINTEGER |-> 29, USTRING |-> 30, REFLIBS |-> 31, FONTS |-> 32,
     PATHTYPE |-> 33, GENERATIONS |-> 34, ATTRTABLE |-> 35, STYPTABLE |-> 36,
     STRTYPE |-> 37, ELFLAGS |-> 38, ELKEY |-> 39, LINKTYPE |-> 40, LINKKEYS |-> 41,
     NODETYPE |-> 42, PROPATTR |-> 43, PROPVALUE |-> 44, BOX |-> 45, BOXTYPE |-> 46,
     PLEX |-> 47, BGNEXTN |-> 48, ENDEXTN |-> 49, TAPENUM |-> 50, TAPECODE |-> 51,
     STRCLASS |-> 52, RESERVED |-> 53, FORMAT |-> 54, MASK |-> 55, ENDMASKS |-> 56,
     LIBDIRSIZE |-> 57, SRFNAME |-> 58, LIBSECUR |-> 59, RAITHCIRCLE |-> 86]

\* an enumeration that takes every byte for a member
RecordTypeValues_any_byte == 0..255

RecordTypeValues == {RecordType[n] : n \in DOMAIN RecordType}

\* RecordType(value) for a value of the enumeration: the member's name
RecordTypeOf(value) == CHOOSE n \in DOMAIN RecordType : RecordType[n] = value

DataType ==
    [NO_DATA_PRESENT |-> 0, BIT_ARRAY |-> 1, TWO_BYTE_SIGNED_INTEGER |-> 2,
     FOUR_BYTE_SIGNED_INTEGER |-> 3, FOUR_BYTE_REAL |-> 4, EIGHT_BYTE_REAL |-> 5,
     ASCII_STRING |-> 6, UNKNOWN |-> -1]

DataTypeValues == {DataType[n] : n \in DOMAIN DataType}

Version == [LESS_THAN_THREE |-> 0, THREE |-> 3, FOUR |-> 4, FIVE |-> 5, SIX |-> 600, SEVEN |-> 7]

PathType == [BUTT |-> 0, ROUND |-> 1, SQUARE |-> 2]

Font == [FONT0 |-> 0, FONT1 |-> 16, FONT2 |-> 32, FONT3 |-> 48]

VerticalAlignment == [TOP |-> 0, MIDDLE |-> 4, BOTTOM |-> 8]

HorizontalAlignment == [LEFT |-> 0, CENTER |-> 1, RIGHT |-> 2]

VersionValues == {Version[n] : n \in DOMAIN Version}

-----------------------------------------------------------------------------
(* records.py: the declared data type of each record class *)

data_type ==
    [HEADER |-> DataType.TWO_BYTE_SIGNED_INTEGER, BGNLIB |-> DataType.TWO_BYTE_SIGNED_INTEGER,
     LIBNAME |-> DataType.ASCII_STRING, UNITS |-> DataType.EIGHT_BYTE_REAL,
     BGNSTR |-> DataType.TWO_BYTE_SIGNED_INTEGER, STRNAME |-> DataType.ASCII_STRING,
     BOUNDARY |-> DataType.NO_DATA_PRESENT, LAYER |-> DataType.TWO_BYTE_SIGNED_INTEGER,
     DATATYPE |-> DataType.TWO_BYTE_SIGNED_INTEGER, XY |-> DataType.FOUR_BYTE_SIGNED_INTEGER,
     ENDEL |-> DataType.NO_DATA_PRESENT, BOX |-> DataType.NO_DATA_PRESENT,
     BOXTYPE |-> DataType.TWO_BYTE_SIGNED_INTEGER, TEXT |-> DataType.NO_DATA_PRESENT,
     TEXTTYPE |-> DataType.TWO_BYTE_SIGNED_INTEGER, PRESENTATION |-> DataType.BIT_ARRAY,
     WIDTH |-> DataType.FOUR_BYTE_SIGNED_INTEGER, STRANS |-> DataType.BIT_ARRAY,
     STRING |-> DataType.ASCII_STRING, ENDSTR |-> DataType.NO_DATA_PRESENT,
     ENDLIB |-> DataType.NO_DATA_PRESENT, SREF |-> DataType.NO_DATA_PRESENT,
     SNAME |-> DataType.ASCII_STRING, PROPATTR |-> DataType.TWO_BYTE_SIGNED_INTEGER,
     PROPVALUE |-> DataType.ASCII_STRING, MAG |-> DataType.EIGHT_BYTE_REAL,
     ANGLE |-> DataType.EIGHT_BYTE_REAL, RAITHCIRCLE |-> DataType.NO_DATA_PRESENT,
     AREF |-> DataType.NO_DATA_PRESENT, COLROW |-> DataType.TWO_BYTE_SIGNED_INTEGER,
     PATH |-> DataType.NO_DATA_PRESENT, NODE |-> DataType.NO_DATA_PRESENT,
     NODETYPE |-> DataType.TWO_BYTE_SIGNED_INTEGER, ELFLAGS |-> DataType.BIT_ARRAY,
     PLEX |-> DataType.FOUR_BYTE_SIGNED_INTEGER, PATHTYPE |-> DataType.TWO_BYTE_SIGNED_INTEGER]

\* the classes derived from SimpleRecord
SimpleRecords ==
    {"BOUNDARY", "ENDEL", "BOX", "TEXT", "ENDSTR", "ENDLIB", "SREF", "RAITHCIRCLE", "AREF",
     "PATH", "NODE"}

-----------------------------------------------------------------------------
(* struct: big-endian integers *)

\* struct.unpack(">H", ...), struct.unpack(">h", ...) of two bytes
UnpackU16(d) == d[1] * 256 + d[2]
UnpackI16(d) == IF d[1] >= 128 THEN (d[1] - 256) * 256 + d[2] ELSE d[1] * 256 + d[2]

\* struct.unpack(">i", ...) / ">l" of four bytes
UnpackI32(d) ==
    (IF d[1] >= 128 THEN d[1] - 256 ELSE d[1]) * 16777216 + d[2] * 65536 + d[3] * 256 + d[4]

\* the bytes struct.pack writes for a value in range
PackI16(v) == <<(v \div 256) % 256, v % 256>>
PackI32(v) == <<(v \div 16777216) % 256, (v \div 65536) % 256, (v \div 256) % 256, v % 256>>

InI16(v) == v >= -32768 /\ v <= 32767
InU16(v) == v >= 0 /\ v <= 65535

\* the bit of value mask set in the unsigned word w (mask a power of two)
BitSet(w, mask) == (w \div mask) % 2 = 1

\* Python's a & b for words 0 <= a, b < 2^17
RECURSIVE BitAnd(_, _)
BitAnd(a, b) ==
    IF a = 0 \/ b = 0 THEN 0
    ELSE (a % 2) * (b % 2) + 2 * BitAnd(a \div 2, b \div 2)

-----------------------------------------------------------------------------
(* str: ASCII strings are sequences of character codes *)

\* bytes.decode(encoding = "ascii") succeeds
IsAscii(d) == \A i \in 1..Len(d) : d[i] < 128

\* str.rstrip("\0")
RECURSIVE RStripNul(_)
RStripNul(d) ==
    IF d # <<>> /\ d[Len(d)] = 0 THEN RStripNul(SubSeq(d, 1, Len(d) - 1)) ELSE d

-----------------------------------------------------------------------------
(* utils.DateTime: datetime.datetime(year, month, day, hour, minute, second) *)

IsLeap(y) == (y % 4 = 0 /\ y % 100 # 0) \/ y % 400 = 0

DaysInMonth(y, m) ==
    IF m = 2 THEN (IF IsLeap(y) THEN 29 ELSE 28)
    ELSE IF m \in {4, 6, 9, 11} THEN 30 ELSE 31

\* the constructor raises ValueError unless the fields are a date and a time
ValidDateTime(t) ==
    /\ t[1] >= 1 /\ t[1] <= 9999
    /\ t[2] >= 1 /\ t[2] <= 12
    /\ t[3] >= 1 /\ t[3] <= DaysInMonth(t[1], t[2])
    /\ t[4] >= 0 /\ t[4] <= 23
    /\ t[5] >= 0 /\ t[5] <= 59
    /\ t[6] >= 0 /\ t[6] <= 59

\* struct.unpack(">6h", ...) of 12 bytes
Unpack6h(d) == [i \in 1..6 |-> UnpackI16(<<d[2 * i - 1], d[2 * i]>>)]

\* DateTime.pack
PackDateTime(t) ==
    PackI16(t[1]) \o PackI16(t[2]) \o PackI16(t[3]) \o PackI16(t[4]) \o PackI16(t[5])
    \o PackI16(t[6])

-----------------------------------------------------------------------------
(* Python values: None, exceptions, warnings *)

None == [cls |-> "NoneType"]

\* no exception is pending
NoErr == [kind |-> "", args |-> <<>>]

\* an exception of class kind constructed with args (record types and data types by value)
Raise(kind, args) == [kind |-> kind, args |-> args]

\* a warning of class kind constructed with args
Warning(kind, args) == [kind |-> kind, args |-> args]

-----------------------------------------------------------------------------
(* library.py: RawRecord and Reader.  The stream is an io.BytesIO over the  *)
(* input bytes.  A reader state r carries the stream and its position, the  *)
(* reader's current record, the pending exception, the warnings issued so   *)
(* far, the pseudo-members DataType has created, and the calls of           *)
(* Record._check made so far, as <<cls.record_type, record.record_type,     *)
(* record.data_type>>.                                                      *)

RawRecord(record_type, dt, data) ==
    [cls |-> "RawRecord", record_type |-> record_type, data_type |-> dt, data |-> data]

\* Reader(stream)
Reader(stream) ==
    [stream |-> stream, pos |-> 0, current |-> None, err |-> NoErr, warnings |-> <<>>,
     pseudo |-> {}, checks |-> <<>>, reads |-> <<>>]

Failed(r) == r.err.kind # ""

\* stream.read(n): the bytes read (fewer than n at the end of the stream, all for n < 0)
StreamRead(r, n) ==
    LET last == IF n < 0 \/ r.pos + n > Len(r.stream) THEN Len(r.stream) ELSE r.pos + n
    IN SubSeq(r.stream, r.pos + 1, last)

\* gdstypes.DataType(value): the warnings and pseudo-members after the lookup
DataTypeLookup(r, value) ==
    IF value \in DataTypeValues \/ value \in r.pseudo THEN r
    ELSE [r EXCEPT !.warnings = Append(@, Warning("UnknownDatatypeWarning", <<value>>)),
                   !.pseudo = @ \cup {value}]

\* Reader.__next__ (StopIteration is an exception like any other to a caller of read_next)
__next__(r) ==
    IF Failed(r) THEN r
    ELSE
    LET header == StreamRead(r, 4) IN
    IF header = <<>> THEN [r EXCEPT !.err = Raise("StopIteration", <<>>)]
    ELSE IF Len(header) < 4
    THEN [r EXCEPT !.pos = @ + Len(header), !.err = Raise("struct.error", <<>>)]
    ELSE
    LET record_size == UnpackU16(header)
        record_type == header[3]
        dt == header[4]
        data_size == record_size - 4
        r1 == [r EXCEPT !.pos = @ + 4]
    IN  IF record_type \notin RecordTypeValues
        THEN [r1 EXCEPT !.err = Raise("UnknownRecordException", <<record_type>>)]
        ELSE
        LET r2 == DataTypeLookup(r1, dt)
            data == StreamRead(r2, data_size)
        IN  [r2 EXCEPT !.pos = @ + Len(data), !.current = RawRecord(record_type, dt, data),
                       !.reads = Append(@, r.pos)]

\* Reader.read_next
read_next(r) == __next__(r)

\* a revert that seeks back by the size of the payload only
revert_payload_only(r) ==
    IF Failed(r) THEN r
    ELSE IF r.current = None THEN [r EXCEPT !.err = Raise("AttributeError", <<>>)]
    ELSE [r EXCEPT !.pos = @ - Len(r.current.data), !.current = None]

\* Reader.revert: None has no attribute "data"
revert(r) ==
    IF Failed(r) THEN r
    ELSE IF r.current = None THEN [r EXCEPT !.err = Raise("AttributeError", <<>>)]
    ELSE [r EXCEPT !.pos = @ - Len(r.current.data) - 4, !.current = None]

-----------------------------------------------------------------------------
(* records.py: Record._check and the read classmethods.  A read returns the *)
(* reader state (exception, warnings) and the record object.                *)

Ret(r, o) == [r |-> r, o |-> o]

\* a _check that does not raise on a record of another type
_check_no_raise(cls, r, record) ==
    LET r1 == [r EXCEPT !.checks = Append(@, <<RecordType[cls], record.record_type,
                                               record.data_type>>)]
    IN  IF data_type[cls] # record.data_type
        THEN [r1 EXCEPT !.warnings = Append(@, Warning("DatatypeMismatchWarning",
                                                <<data_type[cls], record.data_type>>))]
        ELSE r1

\* a _check that raises on a record of another data type
_check_raise_on_data_type(cls, r, record) ==
    LET r1 == [r EXCEPT !.checks = Append(@, <<RecordType[cls], record.record_type,
                                               record.data_type>>)]
    IN  IF RecordType[cls] # record.record_type
        THEN [r1 EXCEPT !.err = Raise("UnexpectedRecordException",
                                      <<RecordType[cls], record.record_type>>)]
        ELSE IF data_type[cls] # record.data_type
        THEN [r1 EXCEPT !.err = Raise("DatatypeMismatchWarning",
                                      <<data_type[cls], record.data_type>>)]
        ELSE r1

\* Record._check
_check(cls, r, record) ==
    LET r1 == [r EXCEPT !.checks = Append(@, <<RecordType[cls], record.record_type,
                                               record.data_type>>)]
    IN  IF RecordType[cls] # record.record_type
        THEN [r1 EXCEPT !.err = Raise("UnexpectedRecordException",
                                      <<RecordType[cls], record.record_type>>)]
        ELSE IF data_type[cls] # record.data_type
        THEN [r1 EXCEPT !.warnings = Append(@, Warning("DatatypeMismatchWarning",
                                                <<data_type[cls], record.data_type>>))]
        ELSE r1

\* struct.unpack raises struct.error unless the buffer has exactly the format's size
StructError(r) == [r EXCEPT !.err = Raise("struct.error", <<>>)]

ValueError(r) == [r EXCEPT !.err = Raise("ValueError", <<>>)]

\* SimpleRecord.read
SimpleRecord_read(cls, r, record) ==
    LET c == _check(cls, r, record)
    IN  IF Failed(c) THEN Ret(c, None) ELSE Ret(c, [cls |-> cls])

\* HEADER.read
HEADER_read(r, record) ==
    LET c == _check("HEADER", r, record)
    IN  IF Failed(c) THEN Ret(c, None)
        ELSE IF Len(record.data) # 2 THEN Ret(StructError(c), None)
        ELSE IF UnpackI16(record.data) \notin VersionValues THEN Ret(ValueError(c), None)
        ELSE Ret(c, [cls |-> "HEADER", version |-> UnpackI16(record.data)])

\* BGNLIB.read and BGNSTR.read
BGN_read(cls, r, record) ==
    LET c == _check(cls, r, record)
    IN  IF Failed(c) THEN Ret(c, None)
        ELSE IF Len(record.data) # 24 THEN Ret(StructError(c), None)
        ELSE LET mod == Unpack6h(SubSeq(record.data, 1, 12))
                 acc == Unpack6h(SubSeq(record.data, 13, 24))
             IN  IF ~ValidDateTime(mod) \/ ~ValidDateTime(acc) THEN Ret(ValueError(c), None)
                 ELSE Ret(c, [cls |-> cls, modification_date |-> mod, access_date |-> acc])

\* LIBNAME.read, STRNAME.read, SNAME.read, STRING.read, PROPVALUE.read: the decoded string
String_read(cls, r, record) ==
    LET c == _check(cls, r, record)
    IN  IF Failed(c) THEN Ret(c, None)
        ELSE IF ~IsAscii(record.data)
        THEN Ret([c EXCEPT !.err = Raise("UnicodeDecodeError", <<>>)], None)
        ELSE Ret(c, [cls |-> cls, str |-> RStripNul(record.data)])

\* UNITS.read
UNITS_read(r, record) ==
    LET c == _check("UNITS", r, record)
    IN  IF Failed(c) THEN Ret(c, None)
        ELSE IF Len(record.data) # 16 THEN Ret(StructError(c), None)
        ELSE Ret(c, [cls |-> "UNITS",
                     logical_unit |-> eight_byte_real_to_float(SubSeq(record.data, 1, 8)),
                     physical_unit |-> eight_byte_real_to_float(SubSeq(record.data, 9, 16))])

\* MAG.read and ANGLE.read: the decoded factor
Real_read(cls, r, record) ==
    LET c == _check(cls, r, record)
    IN  IF Failed(c) THEN Ret(c, None)
        ELSE IF Len(record.data) # 8 THEN Ret(StructError(c), None)
        ELSE Ret(c, [cls |-> cls, factor |-> eight_byte_real_to_float(record.data)])

\* LAYER.read, BOXTYPE.read, TEXTTYPE.read, NODETYPE.read, PATHTYPE.read, PROPATTR.read:
\* struct.unpack(">h", record.data)
Int16_read(cls, r, record) ==
    LET c == _check(cls, r, record)
    IN  IF Failed(c) THEN Ret(c, None)
        ELSE IF Len(record.data) # 2 THEN Ret(StructError(c), None)
        ELSE Ret(c, [cls |-> cls, int |-> UnpackI16(record.data)])

\* WIDTH.read and PLEX.read: struct.unpack(">i", record.data)
Int32_read(cls, r, record) ==
    LET c == _check(cls, r, record)
    IN  IF Failed(c) THEN Ret(c, None)
        ELSE IF Len(record.data) # 4 THEN Ret(StructError(c), None)
        ELSE Ret(c, [cls |-> cls, int |-> UnpackI32(record.data)])

\* DATATYPE.read: the value is looked up in the DataType enumeration
DATATYPE_read(r, record) ==
    LET c == _check("DATATYPE", r, record)
    IN  IF Failed(c) THEN Ret(c, None)
        ELSE IF Len(record.data) # 2 THEN Ret(StructError(c), None)
        ELSE Ret(DataTypeLookup(c, UnpackI16(record.data)),
                 [cls |-> "DATATYPE", type |-> UnpackI16(record.data)])

\* XY.read: size // 8 pairs, the bytes after the last whole pair are not looked at
XY_read(r, record) ==
    LET c == _check("XY", r, record)
        n == Len(record.data) \div 8
    IN  IF Failed(c) THEN Ret(c, None)
        ELSE Ret(c, [cls |-> "XY",
                     x |-> [i \in 1..n |-> UnpackI32(SubSeq(record.data, 8 * i - 7, 8 * i - 4))],
                     y |-> [i \in 1..n |-> UnpackI32(SubSeq(record.data, 8 * i - 3, 8 * i))]])

\* COLROW.read
COLROW_read(r, record) ==
    LET c == _check("COLROW", r, record)
    IN  IF Failed(c) THEN Ret(c, None)
        ELSE IF Len(record.data) # 4 THEN Ret(StructError(c), None)
        ELSE Ret(c, [cls |-> "COLROW", n_cols |-> UnpackI16(SubSeq(record.data, 1, 2)),
                     n_rows |-> UnpackI16(SubSeq(record.data, 3, 4))])

\* PRESENTATION.read: "data & (1 << 5) + data & (1 << 4)" is data & (32 + data) & 16
PRESENTATION_read(r, record) ==
    LET c == _check("PRESENTATION", r, record)
        data == UnpackU16(record.data)
    IN  IF Failed(c) THEN Ret(c, None)
        ELSE IF Len(record.data) # 2 THEN Ret(StructError(c), None)
        ELSE Ret(c, [cls |-> "PRESENTATION",
                     font |-> BitAnd(BitAnd(data, 32 + data), 16),
                     vertical_alignment |-> BitAnd(BitAnd(data, 8 + data), 4),
                     horizontal_alignment |-> BitAnd(BitAnd(data, 2 + data), 1)])

\* STRANS.read
STRANS_read(r, record) ==
    LET c == _check("STRANS", r, record)
        data == UnpackU16(record.data)
    IN  IF Failed(c) THEN Ret(c, None)
        ELSE IF Len(record.data) # 2 THEN Ret(StructError(c), None)
        ELSE Ret(c, [cls |-> "STRANS", reflect_about_x |-> BitSet(data, 16384),
                     absolute_magnification |-> BitSet(data, 2),
                     absolute_angle |-> BitSet(data, 1)])

\* ELFLAGS.read
ELFLAGS_read(r, record) ==
    LET c == _check("ELFLAGS", r, record)
        data == UnpackU16(record.data)
    IN  IF Failed(c) THEN Ret(c, None)
        ELSE IF Len(record.data) # 2 THEN Ret(StructError(c), None)
        ELSE Ret(c, [cls |-> "ELFLAGS", template_data |-> BitSet(data, 1),
                     external_data |-> BitSet(data, 2)])

\* cls.read(record) for a record class cls
Record_read(cls, r, record) ==
    CASE cls \in SimpleRecords -> SimpleRecord_read(cls, r, record)
      [] cls = "HEADER" -> HEADER_read(r, record)
      [] cls \in {"BGNLIB", "BGNSTR"} -> BGN_read(cls, r, record)
      [] cls \in {"LIBNAME", "STRNAME", "SNAME", "STRING", "PROPVALUE"} ->
             String_read(cls, r, record)
      [] cls = "UNITS" -> UNITS_read(r, record)
      [] cls \in {"MAG", "ANGLE"} -> Real_read(cls, r, record)
      [] cls \in {"LAYER", "BOXTYPE", "TEXTTYPE", "NODETYPE", "PATHTYPE", "PROPATTR"} ->
             Int16_read(cls, r, record)
      [] cls \in {"WIDTH", "PLEX"} -> Int32_read(cls, r, record)
      [] cls = "DATATYPE" -> DATATYPE_read(r, record)
      [] cls = "XY" -> XY_read(r, record)
      [] cls = "COLROW" -> COLROW_read(r, record)
      [] cls = "PRESENTATION" -> PRESENTATION_read(r, record)
      [] cls = "STRANS" -> STRANS_read(r, record)
      [] cls = "ELFLAGS" -> ELFLAGS_read(r, record)

-----------------------------------------------------------------------------
(* library.py: objects.  An object of a container class has the attributes  *)
(* set on the instance (attrs) and the contents of the list or of the       *)
(* OrderedDict it derives from (items).  An attribute that is not set on    *)
(* the instance is looked up in the class, where the optional records       *)
(* default to None and the required ones are annotations without a value.   *)

\* cls.__new__(cls) followed by list.__init__ / OrderedDict.__init__
New(cls) == [cls |-> cls, attrs |-> <<>>, items |-> <<>>]

\* self.name = v
SetAttr(o, name, v) ==
    [o EXCEPT !.attrs = [a \in (DOMAIN o.attrs) \cup {name} |->
                            IF a = name THEN v ELSE o.attrs[a]]]

\* the attributes the classes define with the value None
ClassNone ==
    {"_LIBDIRSIZE", "_SRFNAME", "_LIBSECUR", "_REFLIBS", "_FONTS", "_ATTRTABLE",
     "_GENERATIONS", "_FormatType", "_STRCLASS", "_ELFLAGS", "_PLEX", "_PATHTYPE", "_WIDTH",
     "_BGNEXTN", "_ENDEXTN", "_TRANSFORMATION", "_DATATYPE", "_PRESENTATION", "_MAG",
     "_ANGLE"}

\* self.name raises AttributeError
NoAttr(o, name) == name \notin DOMAIN o.attrs /\ name \notin ClassNone

\* self.name where it does not raise
GetAttr(o, name) == IF name \in DOMAIN o.attrs THEN o.attrs[name] ELSE None

\* list.append
ListAppend(o, v) == [o EXCEPT !.items = Append(@, v)]

\* the position of key in the OrderedDict, 0 when it is absent
KeyIndex(items, key) ==
    IF \E i \in 1..Len(items) : items[i][1] = key
    THEN CHOOSE i \in 1..Len(items) : items[i][1] = key
    ELSE 0

\* OrderedDict.__setitem__: a key that is present keeps its position
DictSet(o, key, v) ==
    IF KeyIndex(o.items, key) = 0 THEN [o EXCEPT !.items = Append(@, <<key, v>>)]
    ELSE [o EXCEPT !.items[KeyIndex(o.items, key)] = <<key, v>>]

-----------------------------------------------------------------------------
(* library.py: the read classmethods.  x is the pair of the reader state    *)
(* and the object under construction (self); the local variable "record"    *)
(* of the methods is always the reader's current record.  The body of a     *)
(* read classmethod is the sequence of its statements, run in order until   *)
(* one raises.                                                              *)

\* self.attr = res, for the reader state and the record object res a read has returned
Assign(o, attr, res) ==
    IF Failed(res.r) THEN Ret(res.r, o) ELSE Ret(res.r, SetAttr(o, attr, res.o))

\* self.append(res)
AppendRead(o, res) ==
    IF Failed(res.r) THEN Ret(res.r, o) ELSE Ret(res.r, ListAppend(o, res.o))

\* self.attr = records.cls.read(reader.current)
ReadInto(x, attr, cls) ==
    IF Failed(x.r) THEN x ELSE Assign(x.o, attr, Record_read(cls, x.r, x.r.current))

\* self.append(records.cls.read(reader.current))
ReadAppend(x, cls) ==
    IF Failed(x.r) THEN x ELSE AppendRead(x.o, Record_read(cls, x.r, x.r.current))

\* record = reader.read_next()
Next_(x) == Ret(read_next(x.r), x.o)

\* if record.record_type is cls: self.attr = records.cls.read(record); record = reader.read_next()
Optional(x, attr, cls) ==
    IF x.r.current.record_type = RecordType[cls] THEN Next_(ReadInto(x, attr, cls)) ELSE x

\* an Unsupported that warns and does not read the next record
Unsupported_no_read_next(x, cls) ==
    IF x.r.current.record_type = RecordType[cls]
    THEN Ret([x.r EXCEPT !.warnings =
                  Append(@, Warning("UnsupportedRecordWarning", <<RecordType[cls]>>))],
             x.o)
    ELSE x

\* if record.record_type is cls: warnings.warn(UnsupportedRecordWarning(...)); reader.read_next()
Unsupported(x, cls) ==
    IF x.r.current.record_type = RecordType[cls]
    THEN Next_(Ret([x.r EXCEPT !.warnings =
                        Append(@, Warning("UnsupportedRecordWarning", <<RecordType[cls]>>))],
                   x.o))
    ELSE x

\* raise exceptions.MissingRecordException(cls, record.record_type)
Missing(x, cls) ==
    Ret([x.r EXCEPT !.err = Raise("MissingRecordException",
                                  <<RecordType[cls], x.r.current.record_type>>)], x.o)

\* the statements of the read classmethods
Read(attr, cls) == [op |-> "read", attr |-> attr, cls |-> cls]
ReadNext == [op |-> "read_next", attr |-> "", cls |-> ""]
IfRead(attr, cls) == [op |-> "optional", attr |-> attr, cls |-> cls]
IfWarn(cls) == [op |-> "unsupported", attr |-> "", cls |-> cls]
Revert == [op |-> "revert", attr |-> "", cls |-> ""]
IfTransformation == [op |-> "transformation", attr |-> "_TRANSFORMATION", cls |-> ""]
ReadTextBody == [op |-> "textbody", attr |-> "_TEXTBODY", cls |-> ""]
ReadProperties == [op |-> "properties", attr |-> "", cls |-> ""]
ForElements == [op |-> "elements", attr |-> "", cls |-> ""]
ForStructures == [op |-> "structures", attr |-> "", cls |-> ""]

\* StructureTransformationElement.read: the ANGLE record is read before the next record is
StructureTransformationElement_read ==
    <<Read("_STRANS", "STRANS"), ReadNext, IfRead("_MAG", "MAG"), IfRead("_ANGLE", "ANGLE")>>

\* BoundaryElement.read
BoundaryElement_read ==
    <<Read("_BOUNDARY", "BOUNDARY"), ReadNext, IfRead("_ELFLAGS", "ELFLAGS"),
      IfRead("_PLEX", "PLEX"), Read("_LAYER", "LAYER"), ReadNext,
      Read("_DATATYPE", "DATATYPE"), ReadNext, Read("_XY", "XY"), ReadProperties>>

\* PathElement.read
PathElement_read ==
    <<Read("_PATH", "PATH"), ReadNext, IfRead("_ELFLAGS", "ELFLAGS"), IfRead("_PLEX", "PLEX"),
      Read("_LAYER", "LAYER"), ReadNext, Read("_DATATYPE", "DATATYPE"), ReadNext,
      IfRead("_PATHTYPE", "PATHTYPE"), IfRead("_WIDTH", "WIDTH"), IfWarn("BGNEXTN"),
      IfWarn("ENDEXTN"), Read("_XY", "XY"), ReadProperties>>

\* RaithCircleElement.read
RaithCircleElement_read ==
    <<Read("_RAITHCIRCLE", "RAITHCIRCLE"), ReadNext, Read("_LAYER", "LAYER"), ReadNext,
      Read("_DATATYPE", "DATATYPE"), ReadNext, IfRead("_WIDTH", "WIDTH"), Read("_XY", "XY"),
      ReadProperties>>

\* StructureReferenceElement.read
StructureReferenceElement_read ==
    <<Read("_SREF", "SREF"), ReadNext, IfRead("_ELFLAGS", "ELFLAGS"), IfRead("_PLEX", "PLEX"),
      Read("_SNAME", "SNAME"), ReadNext, IfTransformation, Read("_XY", "XY"),
      ReadProperties>>

\* ArrayReferenceElement.read
ArrayReferenceElement_read ==
    <<Read("_AREF", "AREF"), ReadNext, IfRead("_ELFLAGS", "ELFLAGS"), IfRead("_PLEX", "PLEX"),
      Read("_SNAME", "SNAME"), ReadNext, IfTransformation, Read("_COLROW", "COLROW"),
      ReadNext, Read("_XY", "XY"), ReadProperties>>

\* TextElement.TextBody.read
TextBody_read ==
    <<ReadNext, Read("_TEXTTYPE", "TEXTTYPE"), ReadNext, IfRead("_DATATYPE", "DATATYPE"),
      IfRead("_PRESENTATION", "PRESENTATION"), IfRead("_PATHTYPE", "PATHTYPE"),
      IfRead("_WIDTH", "WIDTH"), IfTransformation, Read("_XY", "XY"), ReadNext,
      Read("_STRING", "STRING")>>

\* TextElement.read
TextElement_read ==
    <<Read("_TEXT", "TEXT"), ReadNext, IfRead("_ELFLAGS", "ELFLAGS"), IfRead("_PLEX", "PLEX"),
      Read("_LAYER", "LAYER"), ReadTextBody, ReadProperties>>

\* NodeElement.read
NodeElement_read ==
    <<Read("_NODE", "NODE"), ReadNext, IfRead("_ELFLAGS", "ELFLAGS"), IfRead("_PLEX", "PLEX"),
      Read("_LAYER", "LAYER"), ReadNext, Read("_NODETYPE", "NODETYPE"), ReadNext,
      Read("_XY", "XY"), ReadProperties>>

\* BoxElement.read
BoxElement_read ==
    <<Read("_BOX", "BOX"), ReadNext, IfRead("_ELFLAGS", "ELFLAGS"), IfRead("_PLEX", "PLEX"),
      Read("_LAYER", "LAYER"), ReadNext, Read("_BOXTYPE", "BOXTYPE"), ReadNext,
      Read("_XY", "XY"), ReadProperties>>

\* a Structure.read that does not revert the record it has looked at
Structure_read_no_revert ==
    <<Read("_BGNSTR", "BGNSTR"), ReadNext, Read("_STRNAME", "STRNAME"), ReadNext,
      IfWarn("STRCLASS"), ForElements>>

\* Structure.read
Structure_read ==
    <<Read("_BGNSTR", "BGNSTR"), ReadNext, Read("_STRNAME", "STRNAME"), ReadNext,
      IfWarn("STRCLASS"), Revert, ForElements>>

\* Library.load_from_file
Library_load_from_file ==
    <<ReadNext, Read("_HEADER", "HEADER"), ReadNext, Read("_BGNLIB", "BGNLIB"), ReadNext,
      IfWarn("LIBDIRSIZE"), IfWarn("SRFNAME"), IfWarn("LIBSECUR"), Read("_LIBNAME", "LIBNAME"),
      ReadNext, IfWarn("REFLIBS"), IfWarn("FONTS"), IfWarn("ATTRTABLE"), IfWarn("GENERATIONS"),
      IfWarn("FORMAT"), Read("_UNITS", "UNITS"), ForStructures>>

\* the class whose read classmethod Structure.read calls for the current record, "" for none
ElementClass(record_type) ==
    CASE record_type = RecordType.BOUNDARY -> "BoundaryElement"
      [] record_type = RecordType.PATH -> "PathElement"
      [] record_type = RecordType.SREF -> "StructureReferenceElement"
      [] record_type = RecordType.AREF -> "ArrayReferenceElement"
      [] record_type = RecordType.TEXT -> "TextElement"
      [] record_type = RecordType.NODE -> "NodeElement"
      [] record_type = RecordType.BOX -> "BoxElement"
      [] record_type = RecordType.RAITHCIRCLE -> "RaithCircleElement"
      [] OTHER -> ""

\* the statements of cls.read
ReadMethod(cls) ==
    CASE cls = "BoundaryElement" -> BoundaryElement_read
      [] cls = "PathElement" -> PathElement_read
      [] cls = "StructureReferenceElement" -> StructureReferenceElement_read
      [] cls = "ArrayReferenceElement" -> ArrayReferenceElement_read
      [] cls = "TextElement" -> TextElement_read
      [] cls = "NodeElement" -> NodeElement_read
      [] cls = "BoxElement" -> BoxElement_read
      [] cls = "RaithCircleElement" -> RaithCircleElement_read
      [] cls = "TextBody" -> TextBody_read
      [] cls = "StructureTransformationElement" -> StructureTransformationElement_read
      [] cls = "Structure" -> Structure_read
      [] cls = "Library" -> Library_load_from_file

\* cls.read(reader) in progress: the class, the statement to run next, and self
Activation(cls) == [cls |-> cls, pc |-> 1, o |-> New(cls)]

\* Library.load_from_file in progress: the reader, the read classmethods that have been
\* called and have not returned (the innermost last), and whether the load has ended
Loading(stream) ==
    [r |-> Reader(stream), stack |-> <<Activation("Library")>>, done |-> FALSE]

Top(m) == m.stack[Len(m.stack)]

\* the innermost method has run a statement: the load ends if the statement raised
Continue(m, r, o, pc) ==
    [m EXCEPT !.r = r, !.stack[Len(m.stack)] = [@ EXCEPT !.o = o, !.pc = pc],
              !.done = Failed(r)]

\* the innermost method calls cls.read(reader)
Enter(m, r, cls) == [m EXCEPT !.r = r, !.stack = Append(@, Activation(cls))]

\* a statement of a read classmethod that calls no other read classmethod
Statement(x, ins) ==
    CASE ins.op = "read" -> ReadInto(x, ins.attr, ins.cls)
      [] ins.op = "read_next" -> Next_(x)
      [] ins.op = "optional" -> Optional(x, ins.attr, ins.cls)
      [] ins.op = "unsupported" -> Unsupported(x, ins.cls)
      [] ins.op = "revert" -> Ret(revert(x.r), x.o)

\* return self: the caller assigns it to an attribute, appends it to the Structure,
\* or stores it in the Library under its name
Return_(m) ==
    IF Len(m.stack) = 1 THEN [m EXCEPT !.done = TRUE]
    ELSE LET self == Top(m).o
             caller == m.stack[Len(m.stack) - 1]
             ins == ReadMethod(caller.cls)[caller.pc]
             resumed ==
                 CASE ins.op = "elements" -> [caller EXCEPT !.o = ListAppend(@, self)]
                   [] ins.op = "structures" ->
                          [caller EXCEPT !.o = DictSet(@, self.attrs["_STRNAME"].str, self)]
                   [] OTHER -> [caller EXCEPT !.o = SetAttr(@, ins.attr, self), !.pc = @ + 1]
         IN  [m EXCEPT !.stack = Append(SubSeq(@, 1, Len(@) - 2), resumed)]

\* the innermost method has run a statement that left the reader and self as in x
Resume(m, x, pc) == Continue(m, x.r, x.o, pc)

\* Element._read_properties, the pass of the loop for the record the reader n has read
PropertiesRecord(m, n) ==
    LET self == Top(m).o
        pc == Top(m).pc
    IN  CASE n.err.kind = "StopIteration" -> Continue(m, m.r, self, pc + 1)
          [] Failed(n) /\ n.err.kind # "StopIteration" -> Continue(m, n, self, pc)
          [] ~Failed(n) /\ n.current.record_type = RecordType.PROPATTR ->
                 Resume(m, ReadAppend(Next_(ReadAppend(Ret(n, self), "PROPATTR")),
                                      "PROPVALUE"), pc)
          [] ~Failed(n) /\ n.current.record_type = RecordType.ENDEL ->
                 Resume(m, ReadInto(Ret(n, self), "_ENDEL", "ENDEL"), pc + 1)
          [] OTHER -> Continue(m, Missing(Ret(n, self), "ENDEL").r, self, pc)

\* Element._read_properties, one pass of the loop: the loop ends without an exception at
\* the end of the stream
_read_properties(m) == PropertiesRecord(m, __next__(m.r))

\* Structure.read, the pass of the loop for the record the reader n has read
ElementsRecord(m, n) ==
    LET self == Top(m).o
        pc == Top(m).pc
    IN  CASE n.err.kind = "StopIteration" -> Continue(m, m.r, self, pc + 1)
          [] Failed(n) /\ n.err.kind # "StopIteration" -> Continue(m, n, self, pc)
          [] ~Failed(n) /\ ElementClass(n.current.record_type) # "" ->
                 Enter(m, n, ElementClass(n.current.record_type))
          [] ~Failed(n) /\ n.current.record_type = RecordType.ENDSTR ->
                 Resume(m, ReadInto(Ret(n, self), "_ENDSTR", "ENDSTR"), pc + 1)
          [] OTHER -> Continue(m, Missing(Ret(n, self), "ENDSTR").r, self, pc)

\* Structure.read, one pass of the loop over the reader
Structure_read_loop(m) == ElementsRecord(m, __next__(m.r))

\* Library.load_from_file, the pass of the loop for the record the reader n has read
StructuresRecord(m, n) ==
    LET self == Top(m).o
        pc == Top(m).pc
    IN  CASE n.err.kind = "StopIteration" -> Continue(m, m.r, self, pc + 1)
          [] Failed(n) /\ n.err.kind # "StopIteration" -> Continue(m, n, self, pc)
          [] ~Failed(n) /\ n.current.record_type = RecordType.BGNSTR ->
                 Enter(m, n, "Structure")
          [] ~Failed(n) /\ n.current.record_type = RecordType.ENDLIB ->
                 Resume(m, ReadInto(Ret(n, self), "_ENDLIB", "ENDLIB"), pc + 1)
          [] OTHER -> Continue(m, Missing(Ret(n, self), "ENDLIB").r, self, pc)

\* Library.load_from_file, one pass of the loop over the reader
load_from_file_loop(m) == StructuresRecord(m, __next__(m.r))

\* the innermost method runs the statement ins
Execute(m, ins) ==
    CASE ins.op = "transformation" ->
             IF m.r.current.record_type = RecordType.STRANS
             THEN Enter(m, m.r, "StructureTransformationElement")
             ELSE Continue(m, m.r, Top(m).o, Top(m).pc + 1)
      [] ins.op = "textbody" -> Enter(m, m.r, "TextBody")
      [] ins.op = "properties" -> _read_properties(m)
      [] ins.op = "elements" -> Structure_read_loop(m)
      [] ins.op = "structures" -> load_from_file_loop(m)
      [] OTHER -> Resume(m, Statement(Ret(m.r, Top(m).o), ins), Top(m).pc + 1)

\* the statements of the innermost method
Body(m) == ReadMethod(Top(m).cls)

\* the innermost method runs its next statement, or returns after its last
Step(m) ==
    IF m.done THEN m
    ELSE IF Top(m).pc > Len(Body(m)) THEN Return_(m)
    ELSE Execute(m, Body(m)[Top(m).pc])

\* 8^d steps, or as many as there are until the load ends
RECURSIVE Run(_, _)
Run(m, d) ==
    IF d = 0 THEN Step(m)
    ELSE LET s1 == Run(m, d - 1)
             s2 == Run(s1, d - 1)
             s3 == Run(s2, d - 1)
             s4 == Run(s3, d - 1)
             s5 == Run(s4, d - 1)
             s6 == Run(s5, d - 1)
             s7 == Run(s6, d - 1)
         IN  CASE s1.done -> s1
               [] s2.done -> s2
               [] s3.done -> s3
               [] s4.done -> s4
               [] s5.done -> s5
               [] s6.done -> s6
               [] s7.done -> s7
               [] OTHER -> Run(s7, d - 1)

\* no load takes more steps: a method is called for a record read, runs at most 17
\* statements and returns, and a loop makes a pass for a record read or ends
MaxSteps(stream) == 20 + 5 * Len(stream)

\* the least d with 8^d >= n
Depth(n) == CHOOSE d \in 0..10 : 8 ^ d >= n /\ (d = 0 \/ 8 ^ (d - 1) < n)

\* the reader state and the Library of the outermost method
Outcome(m) == Ret(m.r, m.stack[1].o)

\* Library.load_from_file(stream): the reader state at the end and the Library built so far
load_from_file(stream) == Outcome(Run(Loading(stream), Depth(MaxSteps(stream))))

\* what the caller of load_from_file gets: the Library, or None with the exception raised
Loaded(x) == IF Failed(x.r) THEN None ELSE x.o

-----------------------------------------------------------------------------
(* records.py: pack and Record.write.  A writer state w is the bytes        *)
(* written to the output stream so far and the pending exception.           *)

Writer == [out |-> <<>>, err |-> NoErr]

Packed(bytes) == [ok |-> TRUE, bytes |-> bytes]

\* struct.pack raises struct.error
PackError == [ok |-> FALSE, bytes |-> <<>>]

\* bool as an int
BoolInt(b) == IF b THEN 1 ELSE 0

\* XY.pack: struct.pack(f">{2 * self.x.size}l", ...) of x[0], y[0], x[1], y[1], ...
PackPairs(x, y) ==
    [k \in 1..(8 * Len(x)) |->
        IF (k - 1) % 8 < 4 THEN PackI32(x[(k + 7) \div 8])[((k - 1) % 8) + 1]
        ELSE PackI32(y[(k + 7) \div 8])[((k - 1) % 8) - 3]]

\* STRANS.pack: "aa + am << 1 + rx << 14" is ((aa + am) << (1 + rx)) << 14
STRANS_flags(rec) ==
    (BoolInt(rec.absolute_angle) + BoolInt(rec.absolute_magnification))
        * Pow2(1 + BoolInt(rec.reflect_about_x)) * 16384

\* ELFLAGS.pack: "template_data + external_data << 1" is (template_data + external_data) << 1
ELFLAGS_flags(rec) == (BoolInt(rec.template_data) + BoolInt(rec.external_data)) * 2

\* the value the constructor was given is a member of an enum.Enum, which struct.pack
\* does not take for an integer
IsEnumMember(rec) == "enum" \in DOMAIN rec

\* self.pack() raises AttributeError: the record was constructed without the attribute
\* pack reads (a class without __init__), or x and y hold lists, which have no "size"
PackNoAttr(rec) ==
    \/ rec.cls \in {"LAYER", "BOXTYPE", "TEXTTYPE", "NODETYPE", "PATHTYPE", "PROPATTR"}
          /\ "int" \notin DOMAIN rec
    \/ rec.cls = "XY" /\ "list" \in DOMAIN rec

\* XY.pack raises ValueError: "tmp[1::2] = self.y" for a y that is not as long as x
PackValueError(rec) == rec.cls = "XY" /\ Len(rec.x) # Len(rec.y)

\* self.pack() for a record object
pack(rec) ==
    CASE rec.cls \in SimpleRecords -> Packed(<<>>)
      [] rec.cls = "HEADER" -> Packed(PackI16(rec.version))
      [] rec.cls \in {"BGNLIB", "BGNSTR"} ->
             Packed(PackDateTime(rec.modification_date) \o PackDateTime(rec.access_date))
      [] rec.cls \in {"LIBNAME", "STRNAME", "SNAME", "STRING", "PROPVALUE"} ->
             Packed(rec.str \o <<0>>)
      [] rec.cls = "UNITS" ->
             LET l == float_to_eight_byte_real(rec.logical_unit)
                 ph == float_to_eight_byte_real(rec.physical_unit)
             IN  IF l.ok /\ ph.ok THEN Packed(l.bytes \o ph.bytes) ELSE PackError
      [] rec.cls \in {"MAG", "ANGLE"} -> float_to_eight_byte_real(rec.factor)
      [] rec.cls \in {"LAYER", "BOXTYPE", "TEXTTYPE", "NODETYPE", "PATHTYPE", "PROPATTR"} ->
             IF IsEnumMember(rec) THEN PackError ELSE Packed(PackI16(rec.int))
      [] rec.cls \in {"WIDTH", "PLEX"} -> Packed(PackI32(rec.int))
      [] rec.cls = "DATATYPE" -> Packed(PackI16(rec.type))
      [] rec.cls = "XY" -> Packed(PackPairs(rec.x, rec.y))
      [] rec.cls = "COLROW" -> Packed(PackI16(rec.n_cols) \o PackI16(rec.n_rows))
      [] rec.cls = "PRESENTATION" ->
             Packed(PackI16(rec.horizontal_alignment + rec.vertical_alignment + rec.font))
      [] rec.cls = "STRANS" ->
             IF InU16(STRANS_flags(rec)) THEN Packed(PackI16(STRANS_flags(rec)))
             ELSE PackError
      [] rec.cls = "ELFLAGS" -> Packed(PackI16(ELFLAGS_flags(rec)))

AttributeError(w) == [w EXCEPT !.err = Raise("AttributeError", <<>>)]

\* self.data_type of a record: the attribute of the instance when one has been assigned,
\* the attribute of the class otherwise
Record_data_type(rec) ==
    IF "data_type" \in DOMAIN rec THEN rec.data_type ELSE data_type[rec.cls]

\* Record.write: the header carries self.data_type.value
Record_write(w, rec) ==
    IF w.err.kind # "" THEN w
    ELSE IF PackNoAttr(rec) THEN AttributeError(w)
    ELSE IF PackValueError(rec) THEN [w EXCEPT !.err = Raise("ValueError", <<>>)]
    ELSE LET data == pack(rec)
         IN  IF ~data.ok \/ ~InU16(Len(data.bytes) + 4)
             THEN [w EXCEPT !.err = Raise("struct.error", <<>>)]
             ELSE [w EXCEPT !.out = @ \o PackI16(Len(data.bytes) + 4)
                                      \o <<RecordType[rec.cls], Record_data_type(rec)>>
                                      \o data.bytes]

-----------------------------------------------------------------------------
(* library.py: the write methods *)

\* self.attr.write(stream) for an attribute holding a record
WriteAttr(w, o, attr) ==
    IF w.err.kind # "" THEN w
    ELSE IF NoAttr(o, attr) \/ GetAttr(o, attr) = None THEN AttributeError(w)
    ELSE Record_write(w, GetAttr(o, attr))

\* self.attr.write(stream) if self.attr is not None else None
WriteOptional(w, o, attr) ==
    IF w.err.kind # "" THEN w
    ELSE IF NoAttr(o, attr) THEN AttributeError(w)
    ELSE IF GetAttr(o, attr) = None THEN w
    ELSE Record_write(w, GetAttr(o, attr))

\* the statements of the write methods
Put(attr) == [op |-> "write", attr |-> attr]
IfPut(attr) == [op |-> "optional", attr |-> attr]
PutObject(attr) == [op |-> "object", attr |-> attr]
IfPutObject(attr) == [op |-> "optional_object", attr |-> attr]
PutAll == [op |-> "all", attr |-> ""]
PutSuper == [op |-> "super", attr |-> ""]

\* Element.write: for prop in self: prop.write(stream), then the ENDEL record
Element_write == <<PutAll, Put("_ENDEL")>>

\* StructureTransformationElement.write
StructureTransformationElement_write == <<Put("_STRANS"), IfPut("_MAG"), IfPut("_ANGLE")>>

\* BoundaryElement.write
BoundaryElement_write ==
    <<Put("_BOUNDARY"), IfPut("_ELFLAGS"), IfPut("_PLEX"), Put("_LAYER"), Put("_DATATYPE"),
      Put("_XY"), PutSuper>>

\* PathElement.write
PathElement_write ==
    <<Put("_PATH"), IfPut("_ELFLAGS"), IfPut("_PLEX"), Put("_LAYER"), Put("_DATATYPE"),
      IfPut("_PATHTYPE"), IfPut("_WIDTH"), IfPut("_BGNEXTN"), IfPut("_ENDEXTN"), Put("_XY"),
      PutSuper>>

\* RaithCircleElement.write
RaithCircleElement_write ==
    <<Put("_RAITHCIRCLE"), Put("_LAYER"), Put("_DATATYPE"), IfPut("_WIDTH"), Put("_XY"),
      PutSuper>>

\* StructureReferenceElement.write
StructureReferenceElement_write ==
    <<Put("_SREF"), IfPut("_ELFLAGS"), IfPut("_PLEX"), Put("_SNAME"),
      IfPutObject("_TRANSFORMATION"), Put("_XY"), PutSuper>>

\* ArrayReferenceElement.write
ArrayReferenceElement_write ==
    <<Put("_AREF"), IfPut("_ELFLAGS"), IfPut("_PLEX"), Put("_SNAME"),
      IfPutObject("_TRANSFORMATION"), Put("_COLROW"), Put("_XY"), PutSuper>>

\* TextElement.TextBody.write: the DATATYPE record read is not written
TextBody_write ==
    <<Put("_TEXTTYPE"), IfPut("_PRESENTATION"), IfPut("_PATHTYPE"), IfPut("_WIDTH"),
      IfPutObject("_TRANSFORMATION"), Put("_XY"), Put("_STRING")>>

\* TextElement.write
TextElement_write ==
    <<Put("_TEXT"), IfPut("_ELFLAGS"), IfPut("_PLEX"), Put("_LAYER"), PutObject("_TEXTBODY"),
      PutSuper>>

\* NodeElement.write
NodeElement_write ==
    <<Put("_NODE"), IfPut("_ELFLAGS"), IfPut("_PLEX"), Put("_LAYER"), Put("_NODETYPE"),
      Put("_XY"), PutSuper>>

\* BoxElement.write
BoxElement_write ==
    <<Put("_BOX"), IfPut("_ELFLAGS"), IfPut("_PLEX"), Put("_LAYER"), Put("_BOXTYPE"),
      Put("_XY"), PutSuper>>

\* Structure.write: for element in self: element.write(stream) between the records
Structure_write ==
    <<Put("_BGNSTR"), Put("_STRNAME"), IfPut("_STRCLASS"), PutAll, Put("_ENDSTR")>>

\* Library.write: for structure in self.values(): structure.write(stream) before ENDLIB
Library_write_method ==
    <<Put("_HEADER"), Put("_BGNLIB"), IfPut("_LIBDIRSIZE"), IfPut("_SRFNAME"),
      IfPut("_LIBSECUR"), Put("_LIBNAME"), IfPut("_REFLIBS"), IfPut("_FONTS"),
      IfPut("_ATTRTABLE"), IfPut("_GENERATIONS"), IfPut("_FormatType"), Put("_UNITS"),
      PutAll, Put("_ENDLIB")>>

\* the statements of cls.write; "Element" is the write of the base class
WriteMethod(cls) ==
    CASE cls = "BoundaryElement" -> BoundaryElement_write
      [] cls = "PathElement" -> PathElement_write
      [] cls = "StructureReferenceElement" -> StructureReferenceElement_write
      [] cls = "ArrayReferenceElement" -> ArrayReferenceElement_write
      [] cls = "TextElement" -> TextElement_write
      [] cls = "NodeElement" -> NodeElement_write
      [] cls = "BoxElement" -> BoxElement_write
      [] cls = "RaithCircleElement" -> RaithCircleElement_write
      [] cls = "TextBody" -> TextBody_write
      [] cls = "StructureTransformationElement" -> StructureTransformationElement_write
      [] cls = "Structure" -> Structure_write
      [] cls = "Library" -> Library_write_method
      [] cls = "Element" -> Element_write

\* the statements of a write method run in order from statement i, and the members of a
\* container are written in order from member i: nothing is written once an exception
\* is pending
RECURSIVE WriteBody(_, _, _, _), WriteAll(_, _, _)

\* self.attr.write(stream) for an attribute holding an object of the library
WriteObject(w, o, attr) ==
    IF NoAttr(o, attr) \/ GetAttr(o, attr) = None THEN AttributeError(w)
    ELSE WriteBody(w, GetAttr(o, attr), WriteMethod(GetAttr(o, attr).cls), 1)

\* member.write(stream): a structure of the library, an element of the structure, or a
\* property record of the element
WriteMember(w, o, member) ==
    CASE o.cls = "Library" -> WriteBody(w, member[2], WriteMethod("Structure"), 1)
      [] o.cls = "Structure" -> WriteBody(w, member, WriteMethod(member.cls), 1)
      [] OTHER -> Record_write(w, member)

\* a statement of a write method
WriteStatement(w, o, ins) ==
    CASE ins.op = "write" -> WriteAttr(w, o, ins.attr)
      [] ins.op = "optional" -> WriteOptional(w, o, ins.attr)
      [] ins.op = "object" -> WriteObject(w, o, ins.attr)
      [] ins.op = "optional_object" ->
             IF GetAttr(o, ins.attr) = None THEN w ELSE WriteObject(w, o, ins.attr)
      [] ins.op = "all" -> WriteAll(w, o, 1)
      [] ins.op = "super" -> WriteBody(w, o, WriteMethod("Element"), 1)

WriteBody(w, o, body, i) ==
    IF i > Len(body) \/ w.err.kind # "" THEN w
    ELSE WriteBody(WriteStatement(w, o, body[i]), o, body, i + 1)

WriteAll(w, o, i) ==
    IF i > Len(o.items) \/ w.err.kind # "" THEN w
    ELSE WriteAll(WriteMember(w, o, o.items[i]), o, i + 1)

\* Library.write(stream) on an empty stream
Library_write(o) == WriteBody(Writer, o, WriteMethod("Library"), 1)

-----------------------------------------------------------------------------
(* library.py and records.py: the constructors and the coordinates setters. *)
(* A numpy array of two dimensions is the sequence of its rows, each the    *)
(* sequence of its entries.  A call returns the object after the call and   *)
(* the exception it raised; a constructor that raises returns no object.    *)

Done(o) == [o |-> o, err |-> NoErr]

Raised(o, kind) == [o |-> o, err |-> Raise(kind, <<>>)]

\* xy.shape[0] and xy.shape[1]
Shape0(xy) == Len(xy)
Shape1(xy) == Len(xy[1])

\* xy[:, j - 1]
Column(xy, j) == [i \in 1..Len(xy) |-> xy[i][j]]

\* self.a = va; self.b = vb; ... for the attributes in the domain of f
SetAttrs(o, f) ==
    [o EXCEPT !.attrs = [a \in (DOMAIN o.attrs) \cup (DOMAIN f) |->
                            IF a \in DOMAIN f THEN f[a] ELSE o.attrs[a]]]

\* records.XY(): two empty arrays
XY == [cls |-> "XY", x |-> <<>>, y |-> <<>>]

\* bool(a != b) for two rows: numpy raises ValueError for an array of more than one element
RowsDiffer(a, b) ==
    IF Len(a) > 1 THEN "ValueError"
    ELSE IF Len(a) = 1 /\ a[1] # b[1] THEN "True"
    ELSE "False"

\* self._XY.x = xy[:, 0]; self._XY.y = xy[:, 1]: the second index raises IndexError
\* on an array of one column, after x has been assigned
StoreColumns(o, xy) ==
    IF Shape1(xy) < 2
    THEN Raised(SetAttr(o, "_XY", [GetAttr(o, "_XY") EXCEPT !.x = Column(xy, 1)]), "IndexError")
    ELSE Done(SetAttr(o, "_XY", [cls |-> "XY", x |-> Column(xy, 1), y |-> Column(xy, 2)]))

\* BoundaryElement.coordinates (setter)
BoundaryElement_coordinates(o, xy) ==
    IF Shape0(xy) < 4 \/ Shape1(xy) # 2 THEN Raised(o, "RuntimeError")
    ELSE IF RowsDiffer(xy[1], xy[Len(xy)]) = "ValueError" THEN Raised(o, "ValueError")
    ELSE IF RowsDiffer(xy[1], xy[Len(xy)]) = "True" THEN Raised(o, "RuntimeError")
    ELSE StoreColumns(o, xy)

\* PathElement.coordinates (setter)
PathElement_coordinates(o, xy) ==
    IF Shape0(xy) < 2 \/ Shape1(xy) # 2 THEN Raised(o, "RuntimeError")
    ELSE StoreColumns(o, xy)

\* StructureReferenceElement.coordinates (setter): x and y are stored in lists
StructureReferenceElement_coordinates(o, value) ==
    IF Len(value) # 2 THEN Raised(o, "ValueError")
    ELSE Done(SetAttr(o, "_XY", [cls |-> "XY", x |-> <<value[1]>>, y |-> <<value[2]>>,
                                 list |-> TRUE]))

\* ArrayReferenceElement.coordinates (setter): the RuntimeError is constructed, not raised
ArrayReferenceElement_coordinates(o, xy) == StoreColumns(o, xy)

\* TextElement.TextBody.coordinates (setter)
TextBody_coordinates(o, value) ==
    IF Len(value) # 2 THEN Raised(o, "ValueError")
    ELSE Done(SetAttr(o, "_XY", [cls |-> "XY", x |-> <<value[1]>>, y |-> <<value[2]>>]))

\* NodeElement.coordinates (setter): the RuntimeError is constructed, not raised
NodeElement_coordinates(o, xy) == StoreColumns(o, xy)

\* BoxElement.coordinates (setter): the RuntimeError is constructed, not raised, and the
\* condition itself raises when its third operand is evaluated
BoxElement_coordinates(o, xy) ==
    IF Shape1(xy) # 2 \/ Shape0(xy) # 5 THEN StoreColumns(o, xy)
    ELSE IF RowsDiffer(xy[1], xy[Len(xy)]) = "ValueError" THEN Raised(o, "ValueError")
    ELSE StoreColumns(o, xy)

\* TextElement.coordinates (setter): the setter of the text body
TextElement_coordinates(o, value) ==
    [TextBody_coordinates(GetAttr(o, "_TEXTBODY"), value) EXCEPT
        !.o = SetAttr(o, "_TEXTBODY", TextBody_coordinates(GetAttr(o, "_TEXTBODY"), value).o)]

\* obj.coordinates = xy
SetCoordinates(o, xy) ==
    CASE o.cls = "TextElement" -> TextElement_coordinates(o, xy)
      [] o.cls = "BoundaryElement" -> BoundaryElement_coordinates(o, xy)
      [] o.cls = "PathElement" -> PathElement_coordinates(o, xy)
      [] o.cls = "StructureReferenceElement" -> StructureReferenceElement_coordinates(o, xy)
      [] o.cls = "ArrayReferenceElement" -> ArrayReferenceElement_coordinates(o, xy)
      [] o.cls = "TextBody" -> TextBody_coordinates(o, xy)
      [] o.cls = "NodeElement" -> NodeElement_coordinates(o, xy)
      [] o.cls = "BoxElement" -> BoxElement_coordinates(o, xy)

\* the rest of an __init__ after "self.coordinates = xy": an exception leaves the caller
\* without the object
Constructed(s, f) == IF s.err.kind # "" THEN [s EXCEPT !.o = None] ELSE Done(SetAttrs(s.o, f))

\* the record a constructor makes of an optional argument, when it differs from the default
Given(attr, cls, value, default) ==
    IF value = default THEN <<>> ELSE attr :> [cls |-> cls, int |-> value]

\* records.PATHTYPE(pathtype) for a member of gdstypes.PathType other than BUTT
GivenPathType(pathtype) ==
    IF pathtype = PathType.BUTT THEN <<>>
    ELSE "_PATHTYPE" :> [cls |-> "PATHTYPE", int |-> pathtype, enum |-> "PathType"]

\* BoundaryElement.__init__(layer, xy)
BoundaryElement__init__(layer, xy) ==
    Constructed(
        BoundaryElement_coordinates(
            SetAttrs(New("BoundaryElement"),
                     "_BOUNDARY" :> [cls |-> "BOUNDARY"] @@ "_LAYER" :> [cls |-> "LAYER", int |-> layer]
                     @@ "_DATATYPE" :> [cls |-> "DATATYPE", type |-> DataType.NO_DATA_PRESENT]
                     @@ "_XY" :> XY),
            xy),
        "_ENDEL" :> [cls |-> "ENDEL"])

\* PathElement.__init__(layer, xy, width, pathtype)
PathElement__init__(layer, xy, width, pathtype) ==
    Constructed(
        PathElement_coordinates(
            SetAttrs(New("PathElement"),
                     "_PATH" :> [cls |-> "PATH"] @@ "_LAYER" :> [cls |-> "LAYER", int |-> layer]
                     @@ "_XY" :> XY),
            xy),
        Given("_WIDTH", "WIDTH", width, 0) @@ GivenPathType(pathtype)
        @@ "_DATATYPE" :> [cls |-> "DATATYPE", type |-> DataType.NO_DATA_PRESENT]
        @@ "_ENDEL" :> [cls |-> "ENDEL"])

\* StructureReferenceElement.__init__(refname, xy): no ENDEL record is made
StructureReferenceElement__init__(refname, xy) ==
    Constructed(
        StructureReferenceElement_coordinates(
            SetAttrs(New("StructureReferenceElement"),
                     "_SREF" :> [cls |-> "SREF"] @@ "_SNAME" :> [cls |-> "SNAME", str |-> refname]
                     @@ "_XY" :> XY),
            xy),
        <<>>)

\* np.c_[reference_point, np.array(col_spacing) * dimensions[1],
\*       np.array(row_spacing) * dimensions[0]].T
ArrayCoordinates(reference_point, dimensions, row_spacing, col_spacing) ==
    <<reference_point,
      <<col_spacing[1] * dimensions[2], col_spacing[2] * dimensions[2]>>,
      <<row_spacing[1] * dimensions[1], row_spacing[2] * dimensions[1]>>>>

\* ArrayReferenceElement.__init__(refname, reference_point, dimensions, row_spacing,
\* col_spacing): COLROW(*dimensions) is COLROW(n_rows, n_cols)
ArrayReferenceElement__init__(refname, reference_point, dimensions, row_spacing, col_spacing) ==
    Constructed(
        ArrayReferenceElement_coordinates(
            SetAttrs(New("ArrayReferenceElement"),
                     "_AREF" :> [cls |-> "AREF"] @@ "_SNAME" :> [cls |-> "SNAME", str |-> refname]
                     @@ "_COLROW" :> [cls |-> "COLROW", n_rows |-> dimensions[1],
                                      n_cols |-> dimensions[2]]
                     @@ "_XY" :> XY),
            ArrayCoordinates(reference_point, dimensions, row_spacing, col_spacing)),
        "_ENDEL" :> [cls |-> "ENDEL"])

\* TextElement.TextBody.__init__(text, xy): records.TEXTTYPE() has no "type"
TextBody__init__(text, xy) ==
    Constructed(
        TextBody_coordinates(
            SetAttrs(New("TextBody"), "_TEXTTYPE" :> [cls |-> "TEXTTYPE"] @@ "_XY" :> XY),
            xy),
        "_STRING" :> [cls |-> "STRING", str |-> text])

\* TextElement.__init__(text, layer, xy)
TextElement__init__(text, layer, xy) ==
    Constructed(
        [TextBody__init__(text, xy) EXCEPT !.o = New("TextElement")],
        "_TEXT" :> [cls |-> "TEXT"] @@ "_LAYER" :> [cls |-> "LAYER", int |-> layer]
        @@ "_TEXTBODY" :> TextBody__init__(text, xy).o @@ "_ENDEL" :> [cls |-> "ENDEL"])

\* NodeElement.__init__(layer, xy, nodetype)
NodeElement__init__(layer, xy, nodetype) ==
    Constructed(
        NodeElement_coordinates(
            SetAttrs(New("NodeElement"),
                     "_NODE" :> [cls |-> "NODE"] @@ "_LAYER" :> [cls |-> "LAYER", int |-> layer]
                     @@ "_XY" :> XY),
            xy),
        Given("_NODETYPE", "NODETYPE", nodetype, 0) @@ "_ENDEL" :> [cls |-> "ENDEL"])

\* BoxElement.__init__(layer, xy, boxtype)
BoxElement__init__(layer, xy, boxtype) ==
    Constructed(
        BoxElement_coordinates(
            SetAttrs(New("BoxElement"),
                     "_BOX" :> [cls |-> "BOX"] @@ "_LAYER" :> [cls |-> "LAYER", int |-> layer]
                     @@ "_XY" :> XY),
            xy),
        Given("_BOXTYPE", "BOXTYPE", boxtype, 0) @@ "_ENDEL" :> [cls |-> "ENDEL"])

\* Structure.__init__(name, mod_date, acc_date)
Structure__init__(name, mod_date, acc_date) ==
    SetAttrs(New("Structure"),
             "_BGNSTR" :> [cls |-> "BGNSTR", modification_date |-> mod_date,
                           access_date |-> acc_date]
             @@ "_STRNAME" :> [cls |-> "STRNAME", str |-> name]
             @@ "_ENDSTR" :> [cls |-> "ENDSTR"])

\* Library.__init__(name, logical_unit, physical_unit, version, mod_date, acc_date)
Library__init__(name, logical_unit, physical_unit, version, mod_date, acc_date) ==
    SetAttrs(New("Library"),
             "_HEADER" :> [cls |-> "HEADER", version |-> version]
             @@ "_BGNLIB" :> [cls |-> "BGNLIB", modification_date |-> mod_date,
                              access_date |-> acc_date]
             @@ "_LIBNAME" :> [cls |-> "LIBNAME", str |-> name]
             @@ "_UNITS" :> [cls |-> "UNITS", logical_unit |-> logical_unit,
                             physical_unit |-> physical_unit]
             @@ "_ENDLIB" :> [cls |-> "ENDLIB"])

-----------------------------------------------------------------------------
(* library.py: draw.  Lengths on the cairo surfaces are kept in quarters of  *)
(* a user unit: for a logical unit and a scale whose product is a multiple   *)
(* of 1/4, the floats numpy computes (products, sums and floor divisions of  *)
(* small multiples of 1/4) are exact, and so are the integers here.  What    *)
(* is drawn is the list of the paths and texts put on the layer surfaces, in *)
(* the order they are put there, each with its layer and its points in       *)
(* surface coordinates.                                                      *)

\* the float q / 4
QuarterFloat(q) ==
    IntToFloat(IF q < 0 THEN -1 ELSE 1, ByteBits(Abs(q)), -2)

QuarterRange == -255..255

\* the float is a multiple of 1/4 of absolute value below 64
IsQuarters(v) == \E q \in QuarterRange : QuarterFloat(q) = v

\* 4 * v
Quarters(v) == CHOOSE q \in QuarterRange : QuarterFloat(q) = v

\* lib.logical_unit * scale, in quarters
UnitScale(lib, options) == Quarters(lib.attrs["_UNITS"].logical_unit) * options.scale

\* what a _draw does: the exception it raises, what it puts on the surfaces, and for a
\* reference the elements it goes on to draw and the shifts it draws them with, in order
Drawn(prims) == [err |-> NoErr, prims |-> prims, elements |-> <<>>, shifts |-> <<>>]
DrawRaises(kind) == [err |-> Raise(kind, <<>>), prims |-> <<>>, elements |-> <<>>, shifts |-> <<>>]
DrawsElements(elements, shifts) ==
    [err |-> NoErr, prims |-> <<>>, elements |-> elements, shifts |-> shifts]

\* X = self.xy.x * lib.logical_unit * scale and Y likewise, for the unit k in quarters
Scaled(xy, k) ==
    [x |-> [i \in 1..Len(xy.x) |-> xy.x[i] * k], y |-> [i \in 1..Len(xy.y) |-> xy.y[i] * k]]

\* the path through the points P after ctx.translate(*shift)
Path(self, P, shift) ==
    IF Len(P.x) = 0 THEN DrawRaises("IndexError")
    ELSE Drawn(<<[cls |-> self.cls, layer |-> self.attrs["_LAYER"].int,
                  x |-> [i \in 1..Len(P.x) |-> P.x[i] + shift[1]],
                  y |-> [i \in 1..Len(P.y) |-> P.y[i] + shift[2]]]>>)

\* BoundaryElement._draw and BoxElement._draw: ctx.translate(*shift), then
\* the path through X * lib.logical_unit * scale, Y * lib.logical_unit * scale
Polygon__draw(lib, options, shift, self) ==
    Path(self, Scaled(self.attrs["_XY"], UnitScale(lib, options)), shift)

\* a member of the enumeration PathType, and an int: PathType is an enum.Enum, so a member
\* is equal to no int
PathTypeMember(value) == [type |-> "PathType", value |-> value]
IntValue(value) == [type |-> "int", value |-> value]

\* PathElement.pathtype: the type attribute of the PATHTYPE record, which PATHTYPE.read has
\* unpacked as an int and the constructor has set to the member it was given; BUTT when
\* there is no record
PathElement_pathtype(self) ==
    IF GetAttr(self, "_PATHTYPE") = None THEN PathTypeMember(PathType.BUTT)
    ELSE IF "enum" \in DOMAIN self.attrs["_PATHTYPE"]
    THEN PathTypeMember(self.attrs["_PATHTYPE"].int)
    ELSE IntValue(self.attrs["_PATHTYPE"].int)

\* the line cap of the context when the path is stroked: the one set for the member that
\* self.pathtype is equal to, or the cap of a new context, cairo.LINE_CAP_BUTT
LineCap(pathtype) ==
    IF pathtype = PathTypeMember(PathType.BUTT) THEN "BUTT"
    ELSE IF pathtype = PathTypeMember(PathType.ROUND) THEN "ROUND"
    ELSE IF pathtype = PathTypeMember(PathType.SQUARE) THEN "SQUARE"
    ELSE "BUTT"

\* the path d stroked with the line cap
Stroked(d, cap) ==
    IF d.prims = <<>> THEN d
    ELSE [d EXCEPT !.prims = <<[cls |-> d.prims[1].cls, layer |-> d.prims[1].layer,
                                x |-> d.prims[1].x, y |-> d.prims[1].y, cap |-> cap]>>]

\* PathElement._draw
PathElement__draw(lib, options, shift, self) ==
    Stroked(Path(self, Scaled(self.attrs["_XY"], UnitScale(lib, options)), shift),
            LineCap(PathElement_pathtype(self)))

\* the arc around the centre P[0] + shift after ctx.translate(*shift)
Arc(self, P, shift) ==
    IF Len(P.x) < 4 THEN DrawRaises("IndexError")
    ELSE IF BitSet(self.attrs["_XY"].y[4], 1) \/ BitSet(self.attrs["_XY"].y[4], 4)
    THEN Drawn(<<>>)
    ELSE Drawn(<<[cls |-> self.cls, layer |-> self.attrs["_LAYER"].int,
                  x |-> <<(P.x[1] + shift[1]) + shift[1]>>,
                  y |-> <<(P.y[1] + shift[2]) + shift[2]>>,
                  radius |-> P.x[2]]>>)

\* RaithCircleElement._draw: the shift is added to the centre, and ctx.translate(*shift)
\* moves the arc around that centre by the shift again
RaithCircleElement__draw(lib, options, shift, self) ==
    Arc(self, Scaled(self.attrs["_XY"], UnitScale(lib, options)), shift)

\* the value a property returns, or the exception it raises
Got(value) == [err |-> NoErr, value |-> value]
GetRaises(kind) == [err |-> Raise(kind, <<>>), value |-> 0 - 1]

\* TextBody.vertical_alignment and TextElement.vertical_alignment: the class attribute
\* _PRESENTATION is None when no PRESENTATION record was read
TextBody_vertical_alignment(body) ==
    IF GetAttr(body, "_PRESENTATION") = None THEN GetRaises("AttributeError")
    ELSE Got(body.attrs["_PRESENTATION"].vertical_alignment)

\* TextBody.horizontal_alignment and TextElement.horizontal_alignment
TextBody_horizontal_alignment(body) ==
    IF GetAttr(body, "_PRESENTATION") = None THEN GetRaises("AttributeError")
    ELSE Got(body.attrs["_PRESENTATION"].horizontal_alignment)

\* the text shown at P[0] after ctx.scale(1, -1), ctx.translate(*shift), ctx.move_to(x, -y)
Show(self, body, P, shift) ==
    IF Len(P.x) = 0 THEN DrawRaises("IndexError")
    ELSE IF TextBody_vertical_alignment(body).err # NoErr
    THEN DrawRaises(TextBody_vertical_alignment(body).err.kind)
    ELSE Drawn(<<[cls |-> self.cls, layer |-> self.attrs["_LAYER"].int,
                  x |-> <<shift[1] + P.x[1]>>,
                  y |-> <<0 - (shift[2] + (0 - P.y[1]))>>]>>)

\* TextElement._draw: ctx.scale(1, -1), ctx.translate(*shift), ctx.move_to(x, -y) put the
\* text at (shift[0] + x, -(shift[1] - y)) on the surface; the moves by the extents of the
\* text, which depend on the font, are left out
TextElement__draw(lib, options, shift, self) ==
    Show(self, self.attrs["_TEXTBODY"],
         Scaled(self.attrs["_TEXTBODY"].attrs["_XY"], UnitScale(lib, options)), shift)

\* lib[name]: the elements of the structure
HasKey(lib, name) == KeyIndex(lib.items, name) # 0
GetItem(lib, name) == lib.items[KeyIndex(lib.items, name)][2]

\* the structure lib[name] drawn with the shift P[0] + shift, nothing when it is missing
PlaceIfPresent(lib, name, P, shift) ==
    IF Len(P.x) = 0 THEN DrawRaises("IndexError")
    ELSE IF ~HasKey(lib, name) THEN Drawn(<<>>)
    ELSE DrawsElements(GetItem(lib, name).items, <<<<P.x[1] + shift[1], P.y[1] + shift[2]>>>>)

\* a _draw of a reference that draws nothing when the structure is not in the library
StructureReferenceElement__draw_skip_missing(lib, options, shift, self) ==
    PlaceIfPresent(lib, self.attrs["_SNAME"].str,
                   Scaled(self.attrs["_XY"], UnitScale(lib, options)), shift)

\* the structure lib[name] drawn with the shift P[0] + shift
Place(lib, name, P, shift) ==
    IF Len(P.x) = 0 THEN DrawRaises("IndexError")
    ELSE IF ~HasKey(lib, name) THEN DrawRaises("KeyError")
    ELSE DrawsElements(GetItem(lib, name).items, <<<<P.x[1] + shift[1], P.y[1] + shift[2]>>>>)

\* a _draw of a reference that doubles the placement when the reference carries a
\* transformation
StructureReferenceElement__draw_transformed(lib, options, shift, self) ==
    Place(lib, self.attrs["_SNAME"].str,
          Scaled(self.attrs["_XY"],
                 IF GetAttr(self, "_TRANSFORMATION") = None THEN UnitScale(lib, options)
                 ELSE 2 * UnitScale(lib, options)),
          shift)

\* StructureReferenceElement._draw
StructureReferenceElement__draw(lib, options, shift, self) ==
    Place(lib, self.attrs["_SNAME"].str,
          Scaled(self.attrs["_XY"], UnitScale(lib, options)), shift)

\* a // n for the float a (in quarters) and the int n
FloorDiv(a, n) == 4 * (a \div (4 * n))

\* the shifts of the instances with the columns outside and the rows inside
Instances_columns_outside(x, y, n_rows, n_cols) ==
    LET row_spacing == <<FloorDiv(x[3] - x[1], n_rows), FloorDiv(y[3] - y[1], n_rows)>>
        col_spacing == <<FloorDiv(x[2] - x[1], n_cols), FloorDiv(y[2] - y[1], n_cols)>>
    IN  [n \in 1..(n_rows * n_cols) |->
            LET j == (n - 1) \div n_rows
                i == (n - 1) % n_rows
            IN  <<x[1] + i * row_spacing[1] + j * col_spacing[1],
                  y[1] + i * row_spacing[2] + j * col_spacing[2]>>]

\* the shifts of the instances, rows outside and columns inside, for the points x, y
Instances(x, y, n_rows, n_cols) ==
    LET row_spacing == <<FloorDiv(x[3] - x[1], n_rows), FloorDiv(y[3] - y[1], n_rows)>>
        col_spacing == <<FloorDiv(x[2] - x[1], n_cols), FloorDiv(y[2] - y[1], n_cols)>>
    IN  [n \in 1..(n_rows * n_cols) |->
            LET i == (n - 1) \div n_cols
                j == (n - 1) % n_cols
            IN  <<x[1] + i * row_spacing[1] + j * col_spacing[1],
                  y[1] + i * row_spacing[2] + j * col_spacing[2]>>]

\* the structure lib[name] drawn once for each instance of the array with the points
\* P + shift
PlaceArray(lib, name, colrow, P, shift) ==
    IF ~HasKey(lib, name) THEN DrawRaises("KeyError")
    ELSE IF Len(P.x) < 3 THEN DrawRaises("IndexError")
    ELSE IF colrow.n_rows <= 0 \/ colrow.n_cols <= 0 THEN DrawsElements(<<>>, <<>>)
    ELSE DrawsElements(GetItem(lib, name).items,
                       Instances([i \in 1..Len(P.x) |-> P.x[i] + shift[1]],
                                 [i \in 1..Len(P.y) |-> P.y[i] + shift[2]],
                                 colrow.n_rows, colrow.n_cols))

\* ArrayReferenceElement._draw
ArrayReferenceElement__draw(lib, options, shift, self) ==
    PlaceArray(lib, self.attrs["_SNAME"].str, self.attrs["_COLROW"],
               Scaled(self.attrs["_XY"], UnitScale(lib, options)), shift)

\* the arrays the names x, y of a _draw are bound to; stored says that they are the arrays
\* of self._XY themselves, and not copies of them or new arrays
\* x, y = self.coordinates: the getters return copies of the arrays, or their first elements
Copied(xy) == [x |-> xy.x, y |-> xy.y, stored |-> FALSE]

\* x, y = self._XY.x, self._XY.y
Referenced(xy) == [x |-> xy.x, y |-> xy.y, stored |-> TRUE]

\* x = x * k and y = y * k bind the names to new arrays
Product(b, k) == [x |-> Scaled(b, k).x, y |-> Scaled(b, k).y, stored |-> FALSE]

\* x *= k and y *= k change the arrays in place; a number is not changed, the name is bound
\* to the product
ProductInPlace(b, k) == [x |-> Scaled(b, k).x, y |-> Scaled(b, k).y, stored |-> b.stored]

\* x += shift[0] and y += shift[1] change the arrays in place
SumInPlace(b, shift) ==
    [x |-> [i \in 1..Len(b.x) |-> b.x[i] + shift[1]],
     y |-> [i \in 1..Len(b.y) |-> b.y[i] + shift[2]], stored |-> b.stored]

\* the element when the arrays of the names x, y are as b says
Kept(self, b) ==
    IF b.stored THEN SetAttr(self, "_XY", [self.attrs["_XY"] EXCEPT !.x = b.x, !.y = b.y])
    ELSE self

\* a _draw of the references that scales and shifts the arrays of _XY themselves
Element__draw_self_in_place(lib, options, shift, self) ==
    IF self.cls \in {"StructureReferenceElement", "ArrayReferenceElement"}
    THEN Kept(self, SumInPlace(ProductInPlace(Referenced(self.attrs["_XY"]),
                                              UnitScale(lib, options)), shift))
    ELSE self

\* the element after the statements of its _draw; no _draw assigns to an attribute of
\* self, of lib or of a structure, and the operations in place are those on x and y
Element__draw_self(lib, options, shift, self) ==
    CASE self.cls \in {"StructureReferenceElement", "ArrayReferenceElement"} ->
             Kept(self, SumInPlace(Product(Copied(self.attrs["_XY"]),
                                           UnitScale(lib, options)), shift))
      [] self.cls = "RaithCircleElement" ->
             Kept(self, SumInPlace(ProductInPlace(Copied(self.attrs["_XY"]),
                                                  UnitScale(lib, options)), shift))
      [] self.cls \in {"BoundaryElement", "BoxElement", "PathElement"} ->
             Kept(self, Product(Copied(self.attrs["_XY"]), UnitScale(lib, options)))
      [] self.cls = "TextElement" ->
             Kept(self, Product(Copied(self.attrs["_TEXTBODY"].attrs["_XY"]),
                                UnitScale(lib, options)))
      [] self.cls = "NodeElement" -> self

\* element._draw(lib, layers, options, shift); NodeElement has the _draw of Element
Element__draw(lib, options, shift, self) ==
    CASE self.cls \in {"BoundaryElement", "BoxElement"} ->
             Polygon__draw(lib, options, shift, self)
      [] self.cls = "PathElement" -> PathElement__draw(lib, options, shift, self)
      [] self.cls = "RaithCircleElement" -> RaithCircleElement__draw(lib, options, shift, self)
      [] self.cls = "TextElement" -> TextElement__draw(lib, options, shift, self)
      [] self.cls = "StructureReferenceElement" ->
             StructureReferenceElement__draw(lib, options, shift, self)
      [] self.cls = "ArrayReferenceElement" ->
             ArrayReferenceElement__draw(lib, options, shift, self)
      [] self.cls = "NodeElement" -> DrawRaises("NotImplementedError")

\* Library.draw in progress: what is on the surfaces, the exception raised, the library, the names of
\* the structures still to draw, and the loops over elements that have not ended (the
\* innermost last), each with the elements, the next one, the shift, and the shifts of
\* the instances of the array still to draw
Drawing(lib, options) ==
    [prims |-> <<>>, err |-> NoErr, lib |-> lib,
     names |-> IF options.has_structures THEN options.structures
               ELSE [i \in 1..Len(lib.items) |-> lib.items[i][1]],
     loops |-> <<>>, depth |-> 0, done |-> FALSE]

Loop(elements, shifts) ==
    [elements |-> elements, i |-> 1, shift |-> Head(shifts), shifts |-> Tail(shifts)]

\* the calls of _draw the interpreter lets nest before it raises RecursionError
\* (sys.getrecursionlimit() frames in Python)
RecursionLimit == 6

IsReference(element) ==
    element.cls \in {"StructureReferenceElement", "ArrayReferenceElement"}

\* the _draw of the element is called: the deepest nesting of the _draw of references so far
Called(m, element) ==
    IF IsReference(element) /\ Len(m.loops) > m.depth THEN [m EXCEPT !.depth = Len(m.loops)]
    ELSE m

\* a flattening that does not follow the references of a referenced structure
Drew_one_level(m, d) ==
    IF d.err.kind # "" THEN [m EXCEPT !.err = d.err, !.done = TRUE]
    ELSE IF d.shifts = <<>> \/ Len(m.loops) >= 2
    THEN [m EXCEPT !.loops[Len(m.loops)].i = @ + 1, !.prims = @ \o d.prims]
    ELSE [m EXCEPT !.loops = Append([@ EXCEPT ![Len(m.loops)].i = @ + 1],
                                    Loop(d.elements, d.shifts))]

\* the element has been drawn as d says: its _draw raised, put something on the surfaces,
\* or goes on to draw the elements of a structure
Drew(m, d) ==
    IF d.err.kind # "" THEN [m EXCEPT !.err = d.err, !.done = TRUE]
    ELSE IF d.shifts = <<>>
    THEN [m EXCEPT !.loops[Len(m.loops)].i = @ + 1, !.prims = @ \o d.prims]
    ELSE IF Len(m.loops) >= RecursionLimit
    THEN [m EXCEPT !.err = Raise("RecursionError", <<>>), !.done = TRUE]
    ELSE [m EXCEPT !.loops = Append([@ EXCEPT ![Len(m.loops)].i = @ + 1],
                                    Loop(d.elements, d.shifts))]

\* the elements, with the element old as its _draw left it; the elements are told apart
\* by their attributes
Replaced(elements, old, new) ==
    [i \in 1..Len(elements) |-> IF elements[i] = old THEN new ELSE elements[i]]

\* the _draw of the element old left it as new: the library and the loops over elements
\* hold the same element
Stores(m, old, new) ==
    IF new = old THEN m
    ELSE [m EXCEPT !.lib.items = [s \in 1..Len(m.lib.items) |->
                       <<m.lib.items[s][1],
                         [m.lib.items[s][2] EXCEPT
                              !.items = Replaced(m.lib.items[s][2].items, old, new)]>>],
                   !.loops = [k \in 1..Len(m.loops) |->
                       [m.loops[k] EXCEPT
                            !.elements = Replaced(m.loops[k].elements, old, new)]]]

\* a loop over the elements that starts again at its end
LoopStep_again(lib, options, m, loop) ==
    IF loop.i > Len(loop.elements)
    THEN [m EXCEPT !.loops[Len(m.loops)] = Loop(loop.elements, <<loop.shift>> \o loop.shifts)]
    ELSE Drew(Called(m, loop.elements[loop.i]),
              Element__draw(lib, options, loop.shift, loop.elements[loop.i]))

\* the next step of the innermost loop over elements: its end, the next instance of an
\* array, or the next element
LoopStep(lib, options, m, loop) ==
    IF loop.i > Len(loop.elements)
    THEN IF loop.shifts = <<>> THEN [m EXCEPT !.loops = SubSeq(@, 1, Len(@) - 1)]
         ELSE [m EXCEPT !.loops[Len(m.loops)] = Loop(loop.elements, loop.shifts)]
    ELSE Drew(Called(Stores(m, loop.elements[loop.i],
                            Element__draw_self(lib, options, loop.shift,
                                               loop.elements[loop.i])),
                     loop.elements[loop.i]),
              Element__draw(lib, options, loop.shift, loop.elements[loop.i]))

\* the next step of Library.draw: the next structure, or the next step of the innermost
\* loop over elements
DrawStep(lib, options, m) ==
    IF m.done THEN m
    ELSE IF m.loops = <<>>
    THEN IF m.names = <<>> THEN [m EXCEPT !.done = TRUE]
         ELSE IF ~HasKey(lib, Head(m.names))
         THEN [m EXCEPT !.err = Raise("KeyError", <<>>), !.done = TRUE]
         ELSE [m EXCEPT !.names = Tail(@),
                        !.loops = <<Loop(GetItem(lib, Head(m.names)).items, <<<<0, 0>>>>)>>]
    ELSE LoopStep(lib, options, m, m.loops[Len(m.loops)])

\* 8^d steps, or as many as there are until the drawing ends
RECURSIVE DrawRun(_, _, _, _)
DrawRun(lib, options, m, d) ==
    IF d = 0 THEN DrawStep(m.lib, options, m)
    ELSE LET s1 == DrawRun(lib, options, m, d - 1)
             s2 == DrawRun(lib, options, s1, d - 1)
             s3 == DrawRun(lib, options, s2, d - 1)
             s4 == DrawRun(lib, options, s3, d - 1)
             s5 == DrawRun(lib, options, s4, d - 1)
             s6 == DrawRun(lib, options, s5, d - 1)
             s7 == DrawRun(lib, options, s6, d - 1)
         IN  CASE s1.done -> s1
               [] s2.done -> s2
               [] s3.done -> s3
               [] s4.done -> s4
               [] s5.done -> s5
               [] s6.done -> s6
               [] s7.done -> s7
               [] OTHER -> DrawRun(lib, options, s7, d - 1)

\* Python's recursion limit is far from reached within 8^DrawDepth steps
DrawDepth == 3

\* the outcome of the drawing m
Painted(m) ==
    IF ~m.done THEN [err |-> Raise("RecursionError", <<>>), prims |-> m.prims, depth |-> m.depth]
    ELSE [err |-> m.err, prims |-> m.prims, depth |-> m.depth]

\* Library.draw(fobj, scale, options): the exception raised, and what is on the surfaces
\* that are painted to the PDF when none is raised
Library_draw(lib, options) == Painted(DrawRun(lib, options, Drawing(lib, options), DrawDepth))

\* the drawing m has ended: its outcome, and the library it leaves
Flattened(m) == [drawn |-> Painted(m), lib |-> m.lib]

\* Library.draw(fobj, scale, options) with the library it leaves
Library_flattened(lib, options) ==
    Flattened(DrawRun(lib, options, Drawing(lib, options), DrawDepth))

-----------------------------------------------------------------------------
(* Input streams.  A stream is described by its records, each with the type *)
(* byte, the data type byte and the payload; the valid streams follow the   *)
(* grammar in the docstrings of library.py and carry the data types         *)
(* records.py declares.                                                     *)

\* a record of class cls with the declared data type
Rec(cls, data) == RawRecord(RecordType[cls], data_type[cls], data)

\* the bytes of one record: length, record type, data type, payload
Frame(record) ==
    PackI16(Len(record.data) + 4) \o <<record.record_type, record.data_type>> \o record.data

RECURSIVE Serialize(_)
Serialize(records) ==
    IF records = <<>> THEN <<>> ELSE Frame(Head(records)) \o Serialize(Tail(records))

\* the payload of an XY record for the points <<x, y>>
RECURSIVE PackPoints(_)
PackPoints(pts) ==
    IF pts = <<>> THEN <<>>
    ELSE PackI32(Head(pts)[1]) \o PackI32(Head(pts)[2]) \o PackPoints(Tail(pts))

Date == <<2020, 2, 29, 23, 59, 58>>

\* 1e-9, 0.5, 0.25, 1.0 and 90.0 as 8-byte reals
Bytes1en9 == <<57, 68, 184, 47, 160, 155, 90, 84>>
BytesHalf == <<64, 128, 0, 0, 0, 0, 0, 0>>
BytesQuarter == <<64, 64, 0, 0, 0, 0, 0, 0>>
BytesOne == <<65, 16, 0, 0, 0, 0, 0, 0>>
Bytes90 == <<66, 90, 0, 0, 0, 0, 0, 0>>

\* "LIB", "TOP", "CELL", "AB", "v" and "text" in ASCII
StrLIB == <<76, 73, 66>>
StrTOP == <<84, 79, 80>>
StrCELL == <<67, 69, 76, 76>>
StrAB == <<65, 66>>
StrV == <<118>>
StrText == <<116, 101, 120, 116>>

\* a string payload, padded with a NUL to an even length
Padded(str) == IF Len(str) % 2 = 1 THEN str \o <<0>> ELSE str

\* HEADER BGNLIB LIBNAME UNITS {<structure>}* ENDLIB
LibraryRecords(units, structures) ==
    <<Rec("HEADER", PackI16(600)), Rec("BGNLIB", PackDateTime(Date) \o PackDateTime(Date)),
      Rec("LIBNAME", Padded(StrLIB)), Rec("UNITS", units \o Bytes1en9)>>
    \o structures \o <<Rec("ENDLIB", <<>>)>>

\* BGNSTR STRNAME {<element>}* ENDSTR
StructureRecords(name, elements) ==
    <<Rec("BGNSTR", PackDateTime(Date) \o PackDateTime(Date)), Rec("STRNAME", Padded(name))>>
    \o elements \o <<Rec("ENDSTR", <<>>)>>

\* BOUNDARY LAYER DATATYPE XY ENDEL
BoundaryRecords(layer, pts) ==
    <<Rec("BOUNDARY", <<>>), Rec("LAYER", PackI16(layer)), Rec("DATATYPE", PackI16(0)),
      Rec("XY", PackPoints(pts)), Rec("ENDEL", <<>>)>>

\* PATH LAYER DATATYPE PATHTYPE WIDTH XY ENDEL
PathTypeRecords(layer, pathtype, pts) ==
    <<Rec("PATH", <<>>), Rec("LAYER", PackI16(layer)), Rec("DATATYPE", PackI16(0)),
      Rec("PATHTYPE", PackI16(pathtype)), Rec("WIDTH", PackI32(10)), Rec("XY", PackPoints(pts)),
      Rec("ENDEL", <<>>)>>

\* a path with square ends that extend beyond its endpoints
PathRecords(layer, pts) == PathTypeRecords(layer, PathType.SQUARE, pts)

\* TEXT LAYER TEXTTYPE PRESENTATION XY STRING ENDEL
TextRecords(layer, pt) ==
    <<Rec("TEXT", <<>>), Rec("LAYER", PackI16(layer)), Rec("TEXTTYPE", PackI16(0)),
      Rec("PRESENTATION", PackI16(0)), Rec("XY", PackPoints(<<pt>>)),
      Rec("STRING", Padded(StrText)), Rec("ENDEL", <<>>)>>

\* NODE LAYER NODETYPE XY ENDEL
NodeRecords(layer, pt) ==
    <<Rec("NODE", <<>>), Rec("LAYER", PackI16(layer)), Rec("NODETYPE", PackI16(0)),
      Rec("XY", PackPoints(<<pt>>)), Rec("ENDEL", <<>>)>>

\* BOX LAYER BOXTYPE XY ENDEL
BoxRecords(layer, pts) ==
    <<Rec("BOX", <<>>), Rec("LAYER", PackI16(layer)), Rec("BOXTYPE", PackI16(0)),
      Rec("XY", PackPoints(pts)), Rec("ENDEL", <<>>)>>

\* RAITHCIRCLE LAYER DATATYPE XY ENDEL: centre, radii, arc angles and the flags word
RaithCircleRecords(layer, centre, radius) ==
    <<Rec("RAITHCIRCLE", <<>>), Rec("LAYER", PackI16(layer)), Rec("DATATYPE", PackI16(0)),
      Rec("XY", PackPoints(<<centre, <<radius, radius>>, <<0, 0>>, <<0, 0>>>>)),
      Rec("ENDEL", <<>>)>>

\* SREF SNAME XY ENDEL
SrefRecords(name, pt) ==
    <<Rec("SREF", <<>>), Rec("SNAME", Padded(name)), Rec("XY", PackPoints(<<pt>>)),
      Rec("ENDEL", <<>>)>>

\* AREF SNAME COLROW XY ENDEL
ArefRecords(name, cols, rows, pts) ==
    <<Rec("AREF", <<>>), Rec("SNAME", Padded(name)),
      Rec("COLROW", PackI16(cols) \o PackI16(rows)), Rec("XY", PackPoints(pts)),
      Rec("ENDEL", <<>>)>>

\* a closed square of side d with its first corner at pt
Square(pt, d) ==
    <<pt, <<pt[1] + d, pt[2]>>, <<pt[1] + d, pt[2] + d>>, <<pt[1], pt[2] + d>>, pt>>

\* a library with one structure holding every element without references: a boundary
\* with flags, plex and a property, a path, a box, a node and a circle
BaseShapes ==
    LibraryRecords(Bytes0001,
        StructureRecords(StrTOP,
            <<Rec("BOUNDARY", <<>>), Rec("ELFLAGS", PackI16(0)), Rec("PLEX", PackI32(7)),
              Rec("LAYER", PackI16(5)), Rec("DATATYPE", PackI16(0)),
              Rec("XY", PackPoints(Square(<<0, 0>>, 10))),
              Rec("PROPATTR", PackI16(1)), Rec("PROPVALUE", Padded(StrV)), Rec("ENDEL", <<>>)>>
            \o PathRecords(6, <<<<0, 0>>, <<20, -20>>>>)
            \o BoxRecords(7, Square(<<-5, -5>>, 5))
            \o NodeRecords(8, <<1, 2>>)
            \o RaithCircleRecords(9, <<3, 4>>, 5)))

\* a library with a text that carries every optional record of a text
BaseText ==
    LibraryRecords(Bytes0001,
        StructureRecords(StrTOP,
            <<Rec("TEXT", <<>>), Rec("ELFLAGS", PackI16(0)), Rec("PLEX", PackI32(7)),
              Rec("LAYER", PackI16(5)), Rec("TEXTTYPE", PackI16(1)),
              Rec("PRESENTATION", PackI16(0)), Rec("PATHTYPE", PackI16(1)),
              Rec("WIDTH", PackI32(-3)), Rec("STRANS", PackI16(0)), Rec("MAG", Bytes90),
              Rec("ANGLE", Bytes90), Rec("XY", PackPoints(<<<<1, 2>>>>)),
              Rec("STRING", Padded(StrText)), Rec("ENDEL", <<>>)>>))

\* a library whose structure TOP places the structure CELL once and as a 3 by 2 array
BaseRefs ==
    LibraryRecords(Bytes0001,
        StructureRecords(StrCELL \o <<49>>, BoundaryRecords(5, Square(<<0, 0>>, 10)))
        \o StructureRecords(StrTOP,
            <<Rec("SREF", <<>>), Rec("SNAME", Padded(StrCELL \o <<49>>)),
              Rec("STRANS", PackI16(0)), Rec("MAG", Bytes90),
              Rec("XY", PackPoints(<<<<10, 20>>>>)), Rec("ENDEL", <<>>)>>
            \o <<Rec("AREF", <<>>), Rec("SNAME", Padded(StrCELL \o <<49>>)),
                 Rec("STRANS", PackI16(0)), Rec("ANGLE", Bytes90),
                 Rec("COLROW", PackI16(3) \o PackI16(2)),
                 Rec("XY", PackPoints(<<<<0, 0>>, <<300, 0>>, <<0, 200>>>>)),
                 Rec("ENDEL", <<>>)>>))

\* a library with the optional records of a library, of a structure and of a path
BaseOptional ==
    <<Rec("HEADER", PackI16(600)), Rec("BGNLIB", PackDateTime(Date) \o PackDateTime(Date)),
      RawRecord(RecordType.LIBDIRSIZE, 2, PackI16(1)),
      RawRecord(RecordType.SRFNAME, 6, Padded(StrV)),
      RawRecord(RecordType.LIBSECUR, 2, PackI16(1) \o PackI16(2) \o PackI16(3)),
      Rec("LIBNAME", Padded(StrLIB)),
      RawRecord(RecordType.REFLIBS, 6, Padded(StrV)),
      RawRecord(RecordType.FONTS, 6, Padded(StrV)),
      RawRecord(RecordType.ATTRTABLE, 6, Padded(StrV)),
      RawRecord(RecordType.GENERATIONS, 2, PackI16(3)),
      RawRecord(RecordType.FORMAT, 2, PackI16(0)),
      Rec("UNITS", Bytes0001 \o Bytes1en9),
      Rec("BGNSTR", PackDateTime(Date) \o PackDateTime(Date)), Rec("STRNAME", Padded(StrTOP)),
      RawRecord(RecordType.STRCLASS, 1, PackI16(0)),
      Rec("PATH", <<>>), Rec("LAYER", PackI16(6)), Rec("DATATYPE", PackI16(0)),
      RawRecord(RecordType.BGNEXTN, 3, PackI32(1)),
      RawRecord(RecordType.ENDEXTN, 3, PackI32(1)),
      Rec("XY", PackPoints(<<<<0, 0>>, <<20, -20>>>>)), Rec("ENDEL", <<>>),
      Rec("ENDSTR", <<>>), Rec("ENDLIB", <<>>)>>

\* a library with a structure name of even length
BaseEven ==
    LibraryRecords(Bytes0001, StructureRecords(StrAB, BoundaryRecords(5, Square(<<0, 0>>, 10))))

\* a library whose user unit is the database unit
BaseUnitOne == LibraryRecords(BytesOne, StructureRecords(StrTOP, <<>>))

\* a library with a boundary whose template flag is set
BaseFlags ==
    LibraryRecords(Bytes0001,
        StructureRecords(StrTOP,
            <<Rec("BOUNDARY", <<>>), Rec("ELFLAGS", PackI16(1)), Rec("LAYER", PackI16(5)),
              Rec("DATATYPE", PackI16(0)), Rec("XY", PackPoints(Square(<<0, 0>>, 10))),
              Rec("ENDEL", <<>>)>>))

\* libraries with one element that violates the coordinate invariant of its kind: a
\* boundary of 3 pairs, an open boundary, a path of 1 pair, a box of 4 pairs, a structure
\* reference and a text of 2 pairs, an array reference of 2 pairs and one of 0 columns
BadGeometryIds ==
    {"boundary3", "boundary_open", "path1", "box4", "sref2", "text2", "aref2", "aref_0_cols"}

BadGeometryRecords(id) ==
    CASE id = "boundary3" -> BoundaryRecords(5, <<<<0, 0>>, <<10, 0>>, <<0, 0>>>>)
      [] id = "boundary_open" -> BoundaryRecords(5, <<<<0, 0>>, <<10, 0>>, <<10, 10>>, <<0, 10>>>>)
      [] id = "path1" -> PathRecords(6, <<<<0, 0>>>>)
      [] id = "box4" -> BoxRecords(7, <<<<0, 0>>, <<5, 0>>, <<5, 5>>, <<0, 0>>>>)
      [] id = "sref2" ->
             <<Rec("SREF", <<>>), Rec("SNAME", Padded(StrTOP)),
               Rec("XY", PackPoints(<<<<10, 20>>, <<30, 40>>>>)), Rec("ENDEL", <<>>)>>
      [] id = "text2" ->
             <<Rec("TEXT", <<>>), Rec("LAYER", PackI16(4)), Rec("TEXTTYPE", PackI16(0)),
               Rec("XY", PackPoints(<<<<1, 2>>, <<3, 4>>>>)), Rec("STRING", Padded(StrText)),
               Rec("ENDEL", <<>>)>>
      [] id = "aref2" -> ArefRecords(StrTOP, 3, 2, <<<<0, 0>>, <<300, 0>>>>)
      [] id = "aref_0_cols" -> ArefRecords(StrTOP, 0, 2, <<<<0, 0>>, <<0, 0>>, <<0, 200>>>>)

BaseBadGeometry(id) == LibraryRecords(Bytes0001, StructureRecords(StrTOP, BadGeometryRecords(id)))

\* a library with two structures of the same name, the first with a boundary and the
\* second with a path
BaseTwice ==
    LibraryRecords(Bytes0001,
        StructureRecords(StrTOP, BoundaryRecords(5, Square(<<0, 0>>, 10)))
        \o StructureRecords(StrTOP, PathRecords(6, <<<<0, 0>>, <<20, -20>>>>)))

\* a library with a text whose body has a DATATYPE record after the TEXTTYPE record
BaseTextDatatype ==
    LibraryRecords(Bytes0001,
        StructureRecords(StrTOP,
            <<Rec("TEXT", <<>>), Rec("LAYER", PackI16(4)), Rec("TEXTTYPE", PackI16(0)),
              Rec("DATATYPE", PackI16(0)), Rec("XY", PackPoints(<<<<1, 2>>>>)),
              Rec("STRING", Padded(StrText)), Rec("ENDEL", <<>>)>>))

\* a library with a boundary that carries the property 5 twice
BaseDuplicateProperty ==
    LibraryRecords(Bytes0001,
        StructureRecords(StrTOP,
            <<Rec("BOUNDARY", <<>>), Rec("LAYER", PackI16(5)), Rec("DATATYPE", PackI16(0)),
              Rec("XY", PackPoints(Square(<<0, 0>>, 10))),
              Rec("PROPATTR", PackI16(5)), Rec("PROPVALUE", Padded(StrV)),
              Rec("PROPATTR", PackI16(5)), Rec("PROPVALUE", Padded(StrAB)),
              Rec("ENDEL", <<>>)>>))

\* a library with a boundary whose LAYER and XY records both carry the data type byte 9
BaseDatatypeTwice ==
    LibraryRecords(Bytes0001,
        StructureRecords(StrTOP,
            <<Rec("BOUNDARY", <<>>), RawRecord(RecordType.LAYER, 9, PackI16(5)),
              Rec("DATATYPE", PackI16(0)),
              RawRecord(RecordType.XY, 9, PackPoints(Square(<<0, 0>>, 10))),
              Rec("ENDEL", <<>>)>>))

\* the valid streams that are mutated
BaseIds == {"shapes", "text", "refs", "optional", "even", "unit", "flags"}

\* the streams that are loaded as they are
PlainIds ==
    BadGeometryIds \cup {"twice", "text_datatype", "duplicate_property", "datatype_twice"}

Base(id) ==
    CASE id \in BadGeometryIds -> BaseBadGeometry(id)
      [] id = "twice" -> BaseTwice
      [] id = "text_datatype" -> BaseTextDatatype
      [] id = "duplicate_property" -> BaseDuplicateProperty
      [] id = "datatype_twice" -> BaseDatatypeTwice
      [] id = "shapes" -> BaseShapes
      [] id = "text" -> BaseText
      [] id = "refs" -> BaseRefs
      [] id = "optional" -> BaseOptional
      [] id = "even" -> BaseEven
      [] id = "unit" -> BaseUnitOne
      [] id = "flags" -> BaseFlags

\* record type bytes outside the enumeration, and record types to put in place of another
UnknownTypes == {60, 255}
OtherTypes == {RecordType.ENDLIB, RecordType.LAYER, RecordType.XY}

\* data type bytes to put in place of the declared one
OtherTags == {DataType.NO_DATA_PRESENT, DataType.FOUR_BYTE_SIGNED_INTEGER, 9}

\* the stream fx describes: a valid stream as it is, cut after v bytes, or with the record
\* type byte or the data type byte of its k-th record replaced by v
FxRecords(fx) ==
    IF fx.mut = "rtype" THEN [Base(fx.base) EXCEPT ![fx.k].record_type = fx.v]
    ELSE IF fx.mut = "dtype" THEN [Base(fx.base) EXCEPT ![fx.k].data_type = fx.v]
    ELSE Base(fx.base)

FxStream(fx) ==
    IF fx.mut = "cut" THEN SubSeq(Serialize(Base(fx.base)), 1, fx.v)
    ELSE Serialize(FxRecords(fx))

Fixtures ==
    UNION {
        {[base |-> b, mut |-> "none", k |-> 0, v |-> 0]}
        \cup {[base |-> b, mut |-> "cut", k |-> 0, v |-> n] :
                 n \in 0..(Len(Serialize(Base(b))) - 1)}
        \cup {[base |-> b, mut |-> "rtype", k |-> k, v |-> t] :
                 k \in 1..Len(Base(b)), t \in UnknownTypes \cup OtherTypes}
        \cup {[base |-> b, mut |-> "dtype", k |-> k, v |-> d] :
                 k \in 1..Len(Base(b)), d \in OtherTags}
        : b \in BaseIds}
    \cup {[base |-> b, mut |-> "none", k |-> 0, v |-> 0] : b \in PlainIds}

-----------------------------------------------------------------------------
(* Libraries to draw.  The user unit is 1, 1/2 or 1/4, so that the lengths  *)
(* on the surfaces are multiples of 1/4.                                    *)

StrMID == <<77, 73, 68>>

LeafKinds == {"boundary", "path", "text", "text_plain", "node", "box", "circle"}

\* one element of the kind, with its first point (the centre of the circle) at <<1, 2>>
LeafRecords(leaf) ==
    CASE leaf = "boundary" -> BoundaryRecords(5, Square(<<1, 2>>, 10))
      [] leaf = "path" -> PathRecords(6, <<<<1, 2>>, <<21, -18>>>>)
      [] leaf = "path_butt" -> PathTypeRecords(6, PathType.BUTT, <<<<1, 2>>, <<21, -18>>>>)
      [] leaf = "path_round" -> PathTypeRecords(6, PathType.ROUND, <<<<1, 2>>, <<21, -18>>>>)
      [] leaf = "text" -> TextRecords(4, <<1, 2>>)
      [] leaf = "text_plain" ->
             <<Rec("TEXT", <<>>), Rec("LAYER", PackI16(4)), Rec("TEXTTYPE", PackI16(0)),
               Rec("XY", PackPoints(<<<<1, 2>>>>)), Rec("STRING", Padded(StrText)),
               Rec("ENDEL", <<>>)>>
      [] leaf = "node" -> NodeRecords(8, <<1, 2>>)
      [] leaf = "box" -> BoxRecords(7, Square(<<1, 2>>, 5))
      [] leaf = "circle" -> RaithCircleRecords(9, <<1, 2>>, 5)

\* the points of the element that are drawn
LeafPoints(leaf) ==
    CASE leaf = "boundary" -> Square(<<1, 2>>, 10)
      [] leaf \in {"path", "path_butt", "path_round"} -> <<<<1, 2>>, <<21, -18>>>>
      [] leaf = "box" -> Square(<<1, 2>>, 5)
      [] OTHER -> <<<<1, 2>>>>

\* CELL holds the element; MID places CELL at pts[1]; TOP places MID at pts[2]
NestStructures(leaf, depth, pts) ==
    StructureRecords(StrCELL, LeafRecords(leaf))
    \o (IF depth >= 1 THEN StructureRecords(StrMID, SrefRecords(StrCELL, pts[1])) ELSE <<>>)
    \o (IF depth >= 2 THEN StructureRecords(StrTOP, SrefRecords(StrMID, pts[2])) ELSE <<>>)

\* CELL holds a square on layer 5; TOP places it as an array of cols by rows with the
\* reference point R = pts[1], the column step C = pts[2] and the row step W = pts[3]
ArrayStructures(cols, rows, pts) ==
    StructureRecords(StrCELL, BoundaryRecords(5, Square(<<0, 0>>, 10)))
    \o StructureRecords(StrTOP,
           ArefRecords(StrCELL, cols, rows,
               <<pts[1],
                 <<pts[1][1] + cols * pts[2][1], pts[1][2] + cols * pts[2][2]>>,
                 <<pts[1][1] + rows * pts[3][1], pts[1][2] + rows * pts[3][2]>>>>))

\* TOP holds a square and a reference to CELL, which is not in the library
DanglingStructures(leaf) ==
    StructureRecords(StrTOP,
        BoundaryRecords(5, Square(<<0, 0>>, 10))
        \o (IF leaf = "sref" THEN SrefRecords(StrCELL, <<10, 20>>)
            ELSE ArefRecords(StrCELL, 3, 2, <<<<0, 0>>, <<300, 0>>, <<0, 200>>>>)))

\* [STRANS [MAG] [ANGLE]]: no transformation, the flags word alone, the reflection flag, a
\* magnification of 1/2, an angle of 90 degrees, and both absolute flags with both factors
TransformationIds == {"none", "plain", "reflect", "mag", "angle", "absolute"}

TransformationRecords(trans) ==
    CASE trans = "none" -> <<>>
      [] trans = "plain" -> <<Rec("STRANS", <<0, 0>>)>>
      [] trans = "reflect" -> <<Rec("STRANS", <<128, 0>>)>>
      [] trans = "mag" -> <<Rec("STRANS", <<0, 0>>), Rec("MAG", BytesHalf)>>
      [] trans = "angle" -> <<Rec("STRANS", <<0, 0>>), Rec("ANGLE", Bytes90)>>
      [] trans = "absolute" ->
             <<Rec("STRANS", <<0, 6>>), Rec("MAG", BytesHalf), Rec("ANGLE", Bytes90)>>

\* SREF SNAME [<strans>] XY ENDEL, or AREF SNAME [<strans>] COLROW XY ENDEL with the
\* points pts[1], pts[1] + cols * <<100, 0>> and pts[1] + rows * <<0, 100>>
ReferenceRecords(leaf, name, trans, cols, rows, pts) ==
    IF leaf = "sref"
    THEN <<Rec("SREF", <<>>), Rec("SNAME", Padded(name))>> \o TransformationRecords(trans)
         \o <<Rec("XY", PackPoints(<<pts[1]>>)), Rec("ENDEL", <<>>)>>
    ELSE <<Rec("AREF", <<>>), Rec("SNAME", Padded(name))>> \o TransformationRecords(trans)
         \o <<Rec("COLROW", PackI16(cols) \o PackI16(rows)),
               Rec("XY", PackPoints(<<pts[1], <<pts[1][1] + cols * 100, pts[1][2]>>,
                                      <<pts[1][1], pts[1][2] + rows * 100>>>>)),
               Rec("ENDEL", <<>>)>>

\* CELL holds a path; TOP places CELL with the reference, which carries the transformation
TransformedStructures(leaf, trans, cols, rows, pts) ==
    StructureRecords(StrCELL, PathRecords(6, <<<<1, 2>>, <<21, -18>>>>))
    \o StructureRecords(StrTOP, ReferenceRecords(leaf, StrCELL, trans, cols, rows, pts))

\* depth 1: CELL holds a square and a reference to CELL; depth 2: CELL holds a square and
\* a reference to TOP, and TOP holds a reference to CELL
CycleStructures(leaf, depth, cols, rows, pts) ==
    IF depth = 1
    THEN StructureRecords(StrCELL,
             BoundaryRecords(5, Square(<<0, 0>>, 10))
             \o ReferenceRecords(leaf, StrCELL, "none", cols, rows, pts))
    ELSE StructureRecords(StrCELL,
             BoundaryRecords(5, Square(<<0, 0>>, 10))
             \o ReferenceRecords(leaf, StrTOP, "none", cols, rows, pts))
         \o StructureRecords(StrTOP, ReferenceRecords(leaf, StrCELL, "none", cols, rows, pts))

DrawRecords(d) ==
    LibraryRecords(d.unit,
        CASE d.kind = "nest" -> NestStructures(d.leaf, d.depth, d.pts)
          [] d.kind = "array" -> ArrayStructures(d.cols, d.rows, d.pts)
          [] d.kind = "dangling" -> DanglingStructures(d.leaf)
          [] d.kind = "order" ->
                 StructureRecords(StrCELL,
                     BoundaryRecords(5, Square(<<0, 0>>, 10))
                     \o PathRecords(6, <<<<0, 0>>, <<20, -20>>>>))
                 \o StructureRecords(StrTOP,
                        BoundaryRecords(1, Square(<<0, 0>>, 10))
                        \o ReferenceRecords("aref", StrCELL, "none", d.cols, d.rows, d.pts)
                        \o ReferenceRecords("sref", StrCELL, "none", 0, 0, <<d.pts[2]>>)
                        \o BoxRecords(7, Square(<<0, 0>>, 5)))
          [] d.kind = "spacing" ->
                 StructureRecords(StrCELL, BoundaryRecords(5, Square(<<0, 0>>, 10)))
                 \o StructureRecords(StrTOP, ArefRecords(StrCELL, d.cols, d.rows, d.pts))
          [] d.kind = "transformed" ->
                 TransformedStructures(d.leaf, d.trans, d.cols, d.rows, d.pts)
          [] d.kind = "cycle" -> CycleStructures(d.leaf, d.depth, d.cols, d.rows, d.pts))

DrawUnits == {BytesOne, BytesHalf, BytesQuarter}
MaxNest == 2
MaxCols == 3
MaxRows == 2

DrawFixtures ==
    {[kind |-> "nest", unit |-> u, leaf |-> l, depth |-> n, pts |-> <<p, <<100, -50>>>>,
      cols |-> 0, rows |-> 0, trans |-> "none"] :
        u \in DrawUnits, l \in LeafKinds, n \in 0..MaxNest, p \in {<<10, 20>>, <<-3, 4>>}}
    \cup
    {[kind |-> "nest", unit |-> BytesOne, leaf |-> l, depth |-> n,
      pts |-> <<<<10, 20>>, <<100, -50>>>>, cols |-> 0, rows |-> 0, trans |-> "none"] :
        l \in {"path_butt", "path_round"}, n \in {0, 1}}
    \cup
    {[kind |-> "array", unit |-> u, leaf |-> "boundary", depth |-> 1, pts |-> <<R, C, W>>,
      cols |-> c, rows |-> r, trans |-> "none"] :
        u \in DrawUnits, c \in 1..MaxCols, r \in 1..MaxRows, R \in {<<0, 0>>, <<5, -7>>},
        C \in {<<100, 0>>, <<1, 0>>, <<3, 1>>}, W \in {<<0, 100>>, <<0, 1>>}}
    \cup
    {[kind |-> "dangling", unit |-> u, leaf |-> l, depth |-> 1, pts |-> <<>>,
      cols |-> 0, rows |-> 0, trans |-> "none"] :
        u \in DrawUnits, l \in {"sref", "aref"}}
    \cup
    {[kind |-> "order", unit |-> BytesOne, leaf |-> "boundary", depth |-> 1,
      pts |-> <<R, <<-40, 30>>>>, cols |-> c, rows |-> r, trans |-> "none"] :
        R \in {<<0, 0>>, <<5, -7>>}, c \in 1..MaxCols, r \in 1..MaxRows}
    \cup
    {[kind |-> "spacing", unit |-> u, leaf |-> "boundary", depth |-> 1,
      pts |-> <<<<0, 0>>, P2, P3>>, cols |-> 2, rows |-> r, trans |-> "none"] :
        u \in DrawUnits, r \in 1..MaxRows, P2 \in {<<6, -6>>, <<7, 0>>, <<-7, 0>>},
        P3 \in {<<0, 4>>, <<0, 5>>}}
    \cup
    {[kind |-> "transformed", unit |-> u, leaf |-> l, depth |-> 1, pts |-> <<<<10, 20>>>>,
      cols |-> 2, rows |-> 1, trans |-> t] :
        u \in DrawUnits, l \in {"sref", "aref"}, t \in TransformationIds}
    \cup
    {[kind |-> "cycle", unit |-> BytesOne, leaf |-> l, depth |-> n, pts |-> <<<<10, 20>>>>,
      cols |-> c, rows |-> 1, trans |-> "none"] :
        l \in {"sref", "aref"}, n \in {1, 2}, c \in {1, 2}}

\* the name of the structure that contains all others
TopName(d) ==
    IF d.kind = "nest" /\ d.depth = 0 THEN StrCELL
    ELSE IF d.kind = "nest" /\ d.depth = 1 THEN StrMID
    ELSE StrTOP

Scales == {1, 2}

-----------------------------------------------------------------------------
(* The programs *)

NoLoad == Ret(Reader(<<>>), None)
NoOptions == [scale |-> 1, has_structures |-> FALSE, structures |-> <<>>]
NoDrawing == [err |-> NoErr, prims |-> <<>>, depth |-> 0]
NoBuild ==
    [call |-> "", ctor |-> None, xy |-> <<>>, value |-> <<>>, o |-> None, before |-> None,
     err |-> NoErr, w |-> Writer]

IOIdle ==
    /\ fixture = [base |-> "", mut |-> "none", k |-> 0, v |-> 0]
    /\ input = <<>>
    /\ phase = "idle"
    /\ loaded = NoLoad
    /\ written = Writer
    /\ draw_options = NoOptions
    /\ drawn = NoDrawing

BuildIdle == built = NoBuild

ReaderIdle == reader = Reader(<<>>) /\ calls = <<>>

FlagsIdle == word = [cls |-> "", data |-> 0] /\ flags = None /\ packed = None

CodecInit ==
    /\ \/ cpc = "input" /\ cbytes \in CodecInputs /\ cfloat = FloatZero
       \/ cpc = "decoded" /\ cbytes = <<>> /\ cfloat \in FloatInputs
    /\ cenc = <<>>
    /\ cfloat2 = FloatZero
    /\ IOIdle
    /\ BuildIdle
    /\ ReaderIdle
    /\ FlagsIdle

CodecIdle ==
    cpc = "idle" /\ cbytes = <<>> /\ cfloat = FloatZero /\ cenc = <<>> /\ cfloat2 = FloatZero

Decode ==
    /\ cpc = "input"
    /\ cfloat' = eight_byte_real_to_float(cbytes)
    /\ cpc' = "decoded"
    /\ UNCHANGED <<cbytes, cenc, cfloat2>>
    /\ UNCHANGED <<ioVars, buildVars, readerVars, flagVars>>

Encode ==
    /\ cpc = "decoded"
    /\ LET r == float_to_eight_byte_real(cfloat)
       IN  /\ cenc' = r.bytes
           /\ cpc' = IF r.ok THEN "encoded" ELSE "raised"
    /\ UNCHANGED <<cbytes, cfloat, cfloat2>>
    /\ UNCHANGED <<ioVars, buildVars, readerVars, flagVars>>

Redecode ==
    /\ cpc = "encoded"
    /\ cfloat2' = eight_byte_real_to_float(cenc)
    /\ cpc' = "done"
    /\ UNCHANGED <<cbytes, cfloat, cenc>>
    /\ UNCHANGED <<ioVars, buildVars, readerVars, flagVars>>

CodecNext == Decode \/ Encode \/ Redecode

SpecCodec == CodecInit /\ [][CodecNext]_vars

\* with open(path, "rb") as f: lib = Library.load_from_file(f)
Init ==
    /\ CodecIdle
    /\ fixture \in Fixtures
    /\ input = FxStream(fixture)
    /\ phase = "start"
    /\ loaded = NoLoad
    /\ written = Writer
    /\ draw_options = NoOptions
    /\ drawn = NoDrawing
    /\ BuildIdle
    /\ ReaderIdle
    /\ FlagsIdle

InitDraw ==
    /\ CodecIdle
    /\ fixture \in DrawFixtures
    /\ input = Serialize(DrawRecords(fixture))
    /\ phase = "start"
    /\ loaded = NoLoad
    /\ written = Writer
    /\ draw_options = NoOptions
    /\ drawn = NoDrawing
    /\ BuildIdle
    /\ ReaderIdle
    /\ FlagsIdle

Load ==
    /\ phase = "start"
    /\ loaded' = load_from_file(input)
    /\ phase' = "loaded"
    /\ UNCHANGED <<fixture, input, written, draw_options, drawn>>
    /\ UNCHANGED <<codecVars, buildVars, readerVars, flagVars>>

\* lib.write(stream), for the library a load has returned
Write ==
    /\ phase = "loaded"
    /\ ~Failed(loaded.r)
    /\ written' = Library_write(loaded.o)
    /\ phase' = "written"
    /\ UNCHANGED <<fixture, input, loaded, draw_options, drawn>>
    /\ UNCHANGED <<codecVars, buildVars, readerVars, flagVars>>

\* lib.draw(fobj, scale) and lib.draw(fobj, scale, {"structures": [name]})
Draw ==
    /\ phase = "loaded"
    /\ ~Failed(loaded.r)
    /\ \E scale \in Scales :
       \E structures \in {<<>>} \cup {<<loaded.o.items[i][1]>> : i \in 1..Len(loaded.o.items)} :
           /\ draw_options' = [scale |-> scale, has_structures |-> structures # <<>>,
                          structures |-> structures]
           /\ \E after \in {Library_flattened(loaded.o, draw_options')} :
                  /\ drawn' = after.drawn
                  /\ loaded' = [loaded EXCEPT !.o = after.lib]
    /\ phase' = "drawn"
    /\ UNCHANGED <<fixture, input, written>>
    /\ UNCHANGED <<codecVars, buildVars, readerVars, flagVars>>

\* Structure.name = name: the setter assigns the name in the STRNAME record
Structure_set_name(self, name) ==
    SetAttr(self, "_STRNAME", [self.attrs["_STRNAME"] EXCEPT !.str = name])

\* the names assigned to a structure
NewNames == {StrCELL, StrAB}

\* lib[key].name = name, for a key of the library a load has returned
Rename ==
    /\ phase = "loaded"
    /\ ~Failed(loaded.r)
    /\ \E i \in 1..Len(loaded.o.items) : \E name \in NewNames :
           loaded' = [loaded EXCEPT !.o.items[i][2] = Structure_set_name(@, name)]
    /\ phase' = "renamed"
    /\ UNCHANGED <<fixture, input, written, draw_options, drawn>>
    /\ UNCHANGED <<codecVars, buildVars, readerVars, flagVars>>

Next == Load \/ Write \/ Rename

NextDraw == Load \/ Draw

Spec == Init /\ [][Next]_vars

SpecDraw == InitDraw /\ [][NextDraw]_vars

-----------------------------------------------------------------------------
(* The producer program: an element is constructed, its coordinates may be  *)
(* assigned, and a library that holds it in one structure is written.       *)

\* arrays of one to six rows, closed and open, of two columns, of three and of one
Arrays ==
    {<<<<0, 0>>>>,
     <<<<0, 0>>, <<4, 0>>>>,
     <<<<0, 0>>, <<4, 0>>, <<0, 4>>>>,
     <<<<0, 0>>, <<4, 0>>, <<0, 4>>, <<0, 0>>>>,
     <<<<0, 0>>, <<4, 0>>, <<0, 4>>, <<8, 8>>>>,
     <<<<0, 0>>, <<4, 0>>, <<4, 4>>, <<0, 4>>, <<0, 0>>>>,
     <<<<0, 0>>, <<4, 0>>, <<4, 4>>, <<0, 4>>, <<8, 8>>>>,
     <<<<0, 0>>, <<4, 0>>, <<4, 4>>, <<2, 6>>, <<0, 4>>, <<0, 0>>>>,
     <<<<0, 0, 1>>, <<4, 0, 1>>, <<0, 4, 1>>>>,
     <<<<0>>, <<4>>, <<4>>, <<0>>, <<0>>>>}

\* the tuples given for a single point
Points == {<<0, 0>>, <<4, 8>>}

PathTypeValues == {PathType[n] : n \in DOMAIN PathType}

\* the constructor calls: the class and its arguments, xy for an array and point for a
\* tuple
ConstructorCalls ==
    {[cls |-> "BoundaryElement", xy |-> a] : a \in Arrays}
    \cup {[cls |-> "PathElement", xy |-> a, width |-> wd, pathtype |-> t] :
              a \in Arrays, wd \in {0, 2}, t \in PathTypeValues}
    \cup {[cls |-> "StructureReferenceElement", point |-> pt] : pt \in Points}
    \cup {[cls |-> "ArrayReferenceElement", point |-> pt, dimensions |-> d] :
              pt \in Points, d \in {<<1, 2>>, <<2, 2>>}}
    \cup {[cls |-> "TextElement", point |-> pt] : pt \in Points}
    \cup {[cls |-> "NodeElement", xy |-> a, nodetype |-> t] : a \in Arrays, t \in {0, 1}}
    \cup {[cls |-> "BoxElement", xy |-> a, boxtype |-> t] : a \in Arrays, t \in {0, 1}}

\* the row spacing and the column spacing given to the constructor of an array
RowSpacing == <<0, 8>>
ColSpacing == <<8, 0>>

\* the element classes whose coordinates are an array, the others take a tuple
ArrayClasses ==
    {"BoundaryElement", "PathElement", "ArrayReferenceElement", "NodeElement", "BoxElement"}

\* cls(...) for a constructor call
Constructor(c) ==
    CASE c.cls = "BoundaryElement" -> BoundaryElement__init__(1, c.xy)
      [] c.cls = "PathElement" -> PathElement__init__(1, c.xy, c.width, c.pathtype)
      [] c.cls = "StructureReferenceElement" -> StructureReferenceElement__init__(StrCELL, c.point)
      [] c.cls = "ArrayReferenceElement" ->
             ArrayReferenceElement__init__(StrCELL, c.point, c.dimensions, RowSpacing,
                                           ColSpacing)
      [] c.cls = "TextElement" -> TextElement__init__(StrText, 1, c.point)
      [] c.cls = "NodeElement" -> NodeElement__init__(1, c.xy, c.nodetype)
      [] c.cls = "BoxElement" -> BoxElement__init__(1, c.xy, c.boxtype)

\* lib = Library("LIB", 1.0, 1e-9); top = Structure("TOP"); top.append(element);
\* lib["TOP"] = top
Assemble(element) ==
    DictSet(Library__init__(StrLIB, eight_byte_real_to_float(BytesOne),
                            eight_byte_real_to_float(Bytes1en9), Version.SEVEN, Date, Date),
            StrTOP,
            ListAppend(Structure__init__(StrTOP, Date, Date), element))

InitBuild ==
    /\ CodecIdle
    /\ IOIdle
    /\ ReaderIdle
    /\ built = NoBuild
    /\ FlagsIdle

\* element = cls(...)
Construct ==
    /\ built.call = ""
    /\ \E c \in ConstructorCalls :
           built' = [call |-> "__init__", ctor |-> c, xy |-> <<>>, value |-> <<>>,
                     o |-> Constructor(c).o, before |-> None, err |-> Constructor(c).err,
                     w |-> Writer]
    /\ UNCHANGED <<codecVars, ioVars, readerVars, flagVars>>

\* the outcome of element.coordinates = xy in the state of the program
Assigned(b, xy, s) ==
    [b EXCEPT !.call = "coordinates", !.xy = xy, !.before = b.o, !.o = s.o, !.err = s.err]

\* element.coordinates = xy
AssignCoordinates ==
    /\ built.call = "__init__"
    /\ built.o # None
    /\ \E xy \in (IF built.o.cls \in ArrayClasses THEN Arrays ELSE Points) :
           built' = Assigned(built, xy, SetCoordinates(built.o, xy))
    /\ UNCHANGED <<codecVars, ioVars, readerVars, flagVars>>

\* BoundaryElement.datatype and PathElement.datatype
Element_datatype(self) == Record_data_type(self.attrs["_DATATYPE"])

\* the setter of datatype: self._DATATYPE.data_type = datatype
Element_set_datatype(self, datatype) ==
    SetAttr(self, "_DATATYPE",
            [cls |-> self.attrs["_DATATYPE"].cls, type |-> self.attrs["_DATATYPE"].type,
             data_type |-> datatype])

\* PathElement.width: 0 when self._WIDTH is the None of the class
PathElement_width(self) ==
    IF GetAttr(self, "_WIDTH") = None THEN 0 ELSE self.attrs["_WIDTH"].int

\* the setter of PathElement.width: returns at once for 0, assigns to the WIDTH record,
\* or makes one when self._WIDTH is None
PathElement_set_width(self, width) ==
    IF width = 0 THEN self
    ELSE IF GetAttr(self, "_WIDTH") = None
    THEN SetAttr(self, "_WIDTH", [cls |-> "WIDTH", int |-> width])
    ELSE SetAttr(self, "_WIDTH", [self.attrs["_WIDTH"] EXCEPT !.int = width])

\* the members of gdstypes.DataType assigned to the datatype of an element
AssignedDataTypes == {DataType.NO_DATA_PRESENT, DataType.FOUR_BYTE_SIGNED_INTEGER}

\* the widths assigned to a path
AssignedWidths == {0, 5, -3}

\* element.datatype = datatype
AssignDatatype ==
    /\ built.call = "__init__"
    /\ built.o # None
    /\ built.o.cls \in {"BoundaryElement", "PathElement"}
    /\ \E datatype \in AssignedDataTypes :
           built' = [built EXCEPT !.call = "datatype", !.value = <<datatype>>,
                                  !.before = built.o,
                                  !.o = Element_set_datatype(built.o, datatype)]
    /\ UNCHANGED <<codecVars, ioVars, readerVars, flagVars>>

\* path.width = width
AssignWidth ==
    /\ built.call = "__init__"
    /\ built.o # None
    /\ built.o.cls = "PathElement"
    /\ \E width \in AssignedWidths :
           built' = [built EXCEPT !.call = "width", !.value = <<width>>,
                                  !.before = built.o,
                                  !.o = PathElement_set_width(built.o, width)]
    /\ UNCHANGED <<codecVars, ioVars, readerVars, flagVars>>

\* lib.write(stream) for a library that holds the element
Save ==
    /\ built.call \in {"__init__", "coordinates", "datatype", "width"}
    /\ built.o # None
    /\ built' = [built EXCEPT !.call = "write", !.w = Library_write(Assemble(built.o))]
    /\ UNCHANGED <<codecVars, ioVars, readerVars, flagVars>>

NextBuild == Construct \/ AssignCoordinates \/ AssignDatatype \/ AssignWidth \/ Save

SpecBuild == InitBuild /\ [][NextBuild]_vars

-----------------------------------------------------------------------------
(* The reader program: a Reader is made over a stream and its methods are   *)
(* called, each call logged with the reader before and after it.            *)

\* HEADER, LIBNAME and ENDLIB
ReaderRecords ==
    <<Rec("HEADER", PackI16(600)), Rec("LIBNAME", Padded(StrLIB)), Rec("ENDLIB", <<>>)>>

\* the values put in the length field of the first record
LengthFields == (0..8) \cup {18, 19}

\* the streams read: the prefixes of the three records, and the three records with
\* another value in the length field of the first
ReaderStreams ==
    {SubSeq(Serialize(ReaderRecords), 1, n) : n \in 0..Len(Serialize(ReaderRecords))}
    \cup {PackI16(n) \o SubSeq(Serialize(ReaderRecords), 3, Len(Serialize(ReaderRecords))) :
              n \in LengthFields}

\* the number of calls made on a reader
MaxCalls == 4

Call(op, before, after) == [op |-> op, before |-> before, after |-> after]

InitReader ==
    /\ CodecIdle
    /\ IOIdle
    /\ BuildIdle
    /\ reader \in {Reader(stream) : stream \in ReaderStreams}
    /\ calls = <<>>
    /\ FlagsIdle

\* record = next(reader)
CallNext ==
    /\ ~Failed(reader)
    /\ Len(calls) < MaxCalls
    /\ reader' = __next__(reader)
    /\ calls' = Append(calls, Call("next", reader, reader'))
    /\ UNCHANGED <<codecVars, ioVars, buildVars, flagVars>>

\* reader.revert()
CallRevert ==
    /\ ~Failed(reader)
    /\ Len(calls) < MaxCalls
    /\ reader' = revert(reader)
    /\ calls' = Append(calls, Call("revert", reader, reader'))
    /\ UNCHANGED <<codecVars, ioVars, buildVars, flagVars>>

NextReader == CallNext \/ CallRevert

SpecReader == InitReader /\ [][NextReader]_vars

\* the sums of the subsets of a set of bit masks
RECURSIVE Sum(_)
Sum(S) == IF S = {} THEN 0 ELSE LET m == CHOOSE x \in S : TRUE IN m + Sum(S \ {m})

\* the PRESENTATION words with the reserved bits clear, and the STRANS words over the two
\* leftmost bits and the three rightmost bits, and the ELFLAGS words over the two
\* rightmost bits
PresentationWords == 0..63
StransWords == {Sum(S) : S \in SUBSET {32768, 16384, 4, 2, 1}}
ElflagsWords == 0..3
FlagWords ==
    {[cls |-> "PRESENTATION", data |-> w] : w \in PresentationWords}
    \cup {[cls |-> "STRANS", data |-> w] : w \in StransWords}
    \cup {[cls |-> "ELFLAGS", data |-> w] : w \in ElflagsWords}

InitFlags ==
    /\ CodecIdle
    /\ IOIdle
    /\ BuildIdle
    /\ ReaderIdle
    /\ word \in FlagWords
    /\ flags = None
    /\ packed = None

\* presentation = records.PRESENTATION.read(record)
ReadPresentation ==
    /\ word.cls = "PRESENTATION"
    /\ flags = None
    /\ flags' = PRESENTATION_read(Reader(<<>>), Rec("PRESENTATION", PackI16(word.data))).o
    /\ UNCHANGED <<word, packed>>
    /\ UNCHANGED <<codecVars, ioVars, buildVars, readerVars>>

\* strans = records.STRANS.read(record)
ReadStrans ==
    /\ word.cls = "STRANS"
    /\ flags = None
    /\ flags' = STRANS_read(Reader(<<>>), Rec("STRANS", PackI16(word.data))).o
    /\ UNCHANGED <<word, packed>>
    /\ UNCHANGED <<codecVars, ioVars, buildVars, readerVars>>

\* elflags = records.ELFLAGS.read(record)
ReadElflags ==
    /\ word.cls = "ELFLAGS"
    /\ flags = None
    /\ flags' = ELFLAGS_read(Reader(<<>>), Rec("ELFLAGS", PackI16(word.data))).o
    /\ UNCHANGED <<word, packed>>
    /\ UNCHANGED <<codecVars, ioVars, buildVars, readerVars>>

\* data = flags.pack(), for the record object a read has returned
PackFlags ==
    /\ flags # None
    /\ packed = None
    /\ packed' = pack(flags)
    /\ UNCHANGED <<word, flags>>
    /\ UNCHANGED <<codecVars, ioVars, buildVars, readerVars>>

NextFlags == ReadPresentation \/ ReadStrans \/ ReadElflags \/ PackFlags

SpecFlags == InitFlags /\ [][NextFlags]_vars

-----------------------------------------------------------------------------
(* Claims on the codec *)

\* C2: every float decoded from a valid 8-byte real, and every float of
\* [-1, 1] given (1.0 among them), is encoded without an error and decodes
\* from its encoding to the same float.
C2_CodecRoundTrip ==
    (cpc \in {"done", "raised"} /\ (cbytes = <<>> \/ ValidReal(cbytes)))
        => (cpc = "done" /\ cfloat2 = cfloat)

\* C3: the bytes 3E 41 89 37 4B C6 A7 F0 decode to the float 0.001, and the
\* float 0.001 is encoded, without an error, as exactly those bytes.
C3_Example0001 ==
    /\ (cpc # "input" /\ cbytes = Bytes0001) => cfloat = Float0001
    /\ (cpc # "input" /\ cfloat = Float0001) => cpc # "raised"
    /\ (cpc \in {"encoded", "done"} /\ cfloat = Float0001) => cenc = Bytes0001

\* C3 witness: 0.001 was decoded from the bytes and encoded back to them
C3_Witness ==
    cpc = "done" /\ cbytes = Bytes0001 /\ cfloat = Float0001 /\ cenc = Bytes0001

-----------------------------------------------------------------------------
(* Claims on load and write *)

\* C1: for every valid stream, writing the library loaded from it raises no
\* exception and gives back the bytes of the stream.
C1_RoundTrip ==
    (phase = "written" /\ fixture.mut = "none")
        => (written.err = NoErr /\ written.out = input)

\* C6: a load of a proper prefix of a valid stream raises an exception; no
\* library is returned.
C6_TruncatedInputFails ==
    (phase = "loaded" /\ fixture.mut = "cut") => Failed(loaded.r)

\* C7: when the type byte of a record, at any position of a valid stream, is
\* not a record type of the enumeration, the load raises
\* UnknownRecordException with that byte and returns no library.
C7_UnknownRecordType ==
    (phase = "loaded" /\ fixture.mut = "rtype" /\ fixture.v \in UnknownTypes)
        => /\ loaded.r.err = Raise("UnknownRecordException", <<fixture.v>>)
           /\ Loaded(loaded) = None

\* C7 witness: the load of a stream whose XY record carries the type byte 255
\* has raised UnknownRecordException
C7_Witness ==
    /\ phase = "loaded" /\ fixture.mut = "rtype" /\ fixture.v = 255
    /\ Base(fixture.base)[fixture.k].record_type = RecordType.XY
    /\ loaded.r.err.kind = "UnknownRecordException"

\* C8: whenever a record is checked against a record class of another type,
\* the load ends there with UnexpectedRecordException(expected, actual) and
\* returns no library.
C8_UnexpectedRecord ==
    phase = "loaded" =>
        \A i \in 1..Len(loaded.r.checks) :
            loaded.r.checks[i][1] # loaded.r.checks[i][2]
                => /\ i = Len(loaded.r.checks)
                   /\ loaded.r.err = Raise("UnexpectedRecordException",
                                           <<loaded.r.checks[i][1], loaded.r.checks[i][2]>>)
                   /\ Loaded(loaded) = None

\* C8 witness: a LAYER record was found where the HEADER is required, and a
\* load has raised on a record other than the STRNAME that follows BGNSTR
C8_Witness ==
    /\ phase = "loaded" /\ fixture.mut = "rtype" /\ fixture.k = 1
    /\ fixture.v = RecordType.LAYER
    /\ loaded.r.checks = <<<<RecordType.HEADER, RecordType.LAYER,
                             DataType.TWO_BYTE_SIGNED_INTEGER>>>>
    /\ loaded.r.err.kind = "UnexpectedRecordException"

\* C9: when the data type byte of a record of a valid stream is replaced by
\* another one, and the record is of a type that has a record class, the load
\* raises no exception, issues DatatypeMismatchWarning(declared, actual), and
\* returns the library it returns for the valid stream.
C9_DatatypeMismatch ==
    (/\ phase = "loaded" /\ fixture.mut = "dtype"
     /\ Base(fixture.base)[fixture.k].record_type \in {RecordType[c] : c \in DOMAIN data_type}
     /\ Base(fixture.base)[fixture.k].data_type # fixture.v)
        => /\ ~Failed(loaded.r)
           /\ \E i \in 1..Len(loaded.r.warnings) :
                  loaded.r.warnings[i] =
                      Warning("DatatypeMismatchWarning",
                              <<Base(fixture.base)[fixture.k].data_type, fixture.v>>)
           /\ loaded.o = load_from_file(Serialize(Base(fixture.base))).o

\* C9 witness: a load has warned about an XY record declared to hold no data
\* and has returned a library
C9_Witness ==
    /\ phase = "loaded" /\ fixture.mut = "dtype" /\ fixture.v = DataType.NO_DATA_PRESENT
    /\ Base(fixture.base)[fixture.k].record_type = RecordType.XY
    /\ ~Failed(loaded.r)
    /\ loaded.o.cls = "Library"
    /\ \E i \in 1..Len(loaded.r.warnings) :
           loaded.r.warnings[i].kind = "DatatypeMismatchWarning"

-----------------------------------------------------------------------------
(* Claims on draw *)

\* C4: drawing the structure that places a square as an array of cols by rows,
\* with the reference point R and the steps C and W, puts rows * cols squares
\* on layer 5, the n-th of them (rows outside, columns inside) moved by
\* R + i * W + j * C database units.
C4_ArrayOffsets ==
    (phase = "drawn" /\ fixture.kind = "array" /\ draw_options.structures = <<StrTOP>>)
        => LET k == Quarters(eight_byte_real_to_float(fixture.unit)) * draw_options.scale
               R == fixture.pts[1]
               C == fixture.pts[2]
               W == fixture.pts[3]
               pts == Square(<<0, 0>>, 10)
           IN  /\ drawn.err = NoErr
               /\ Len(drawn.prims) = fixture.rows * fixture.cols
               /\ \A n \in 1..Len(drawn.prims) :
                      LET i == (n - 1) \div fixture.cols
                          j == (n - 1) % fixture.cols
                      IN  /\ drawn.prims[n].layer = 5
                          /\ drawn.prims[n].x =
                                 [m \in 1..5 |-> (pts[m][1] + R[1] + i * W[1] + j * C[1]) * k]
                          /\ drawn.prims[n].y =
                                 [m \in 1..5 |-> (pts[m][2] + R[2] + i * W[2] + j * C[2]) * k]

\* C5: drawing the outermost structure of a nest of references puts the leaf
\* element on its surface once, every point moved by the sum of the insertion
\* points of the references around it.
C5_OffsetAccumulation ==
    (phase = "drawn" /\ fixture.kind = "nest"
     /\ draw_options.structures = <<TopName(fixture)>>)
        => LET k == Quarters(eight_byte_real_to_float(fixture.unit)) * draw_options.scale
               off == IF fixture.depth = 0 THEN <<0, 0>>
                      ELSE IF fixture.depth = 1 THEN fixture.pts[1]
                      ELSE <<fixture.pts[1][1] + fixture.pts[2][1],
                             fixture.pts[1][2] + fixture.pts[2][2]>>
               pts == LeafPoints(fixture.leaf)
           IN  /\ drawn.err = NoErr
               /\ Len(drawn.prims) = 1
               /\ drawn.prims[1].x = [m \in 1..Len(pts) |-> (pts[m][1] + off[1]) * k]
               /\ drawn.prims[1].y = [m \in 1..Len(pts) |-> (pts[m][2] + off[2]) * k]

\* C10: a stream in which an SREF or an AREF names a structure that is not in
\* the library is loaded without an exception, the reference in the library;
\* drawing the structure that holds the reference raises KeyError.
C10_DanglingReference ==
    fixture.kind = "dangling"
        => /\ phase # "start"
                => /\ ~Failed(loaded.r)
                   /\ Len(loaded.o.items) = 1
                   /\ Len(loaded.o.items[1][2].items) = 2
                   /\ loaded.o.items[1][2].items[2].attrs["_SNAME"].str = StrCELL
           /\ phase = "drawn" => drawn.err.kind = "KeyError"

\* C10 witness: the library with the dangling SREF was loaded and drawn
C10_Witness ==
    /\ phase = "drawn" /\ fixture.kind = "dangling" /\ fixture.leaf = "sref"
    /\ ~Failed(loaded.r)
    /\ drawn.err.kind = "KeyError"


-----------------------------------------------------------------------------
(* Claims on the constructors, the coordinates setters and the write of a   *)
(* library built with them                                                   *)

\* the first row of the array equals the last
Closed(xy) == xy[1] = xy[Len(xy)]

\* every row of the array is a coordinate pair
Pairs(xy) == \A i \in 1..Len(xy) : Len(xy[i]) = 2

\* the coordinates satisfy the invariant of the element class
ValidCoordinates(cls, xy) ==
    CASE cls = "BoundaryElement" -> Pairs(xy) /\ Len(xy) >= 4 /\ Closed(xy)
      [] cls = "PathElement" -> Pairs(xy) /\ Len(xy) >= 2
      [] cls = "BoxElement" -> Pairs(xy) /\ Len(xy) = 5 /\ Closed(xy)
      [] cls = "NodeElement" -> Pairs(xy) /\ Len(xy) \in 1..50
      [] cls = "ArrayReferenceElement" -> Pairs(xy) /\ Len(xy) = 3

\* the arguments of the constructor call satisfy the invariants of the data model, with
\* the default type tag for a node and a box
ValidCall(c) ==
    CASE c.cls = "ArrayReferenceElement" -> c.dimensions[1] > 0 /\ c.dimensions[2] > 0
      [] c.cls = "NodeElement" -> ValidCoordinates(c.cls, c.xy) /\ c.nodetype = 0
      [] c.cls = "BoxElement" -> ValidCoordinates(c.cls, c.xy) /\ c.boxtype = 0
      [] c.cls \in {"StructureReferenceElement", "TextElement"} -> Len(c.point) = 2
      [] OTHER -> ValidCoordinates(c.cls, c.xy)

\* the ENDEL, ENDSTR and ENDLIB records that end a library of one structure of one element
EndMarkers == Serialize(<<Rec("ENDEL", <<>>), Rec("ENDSTR", <<>>), Rec("ENDLIB", <<>>)>>)

\* the bytes written end with the three markers
EndsWithMarkers(out) ==
    /\ Len(out) >= Len(EndMarkers)
    /\ SubSeq(out, Len(out) - Len(EndMarkers) + 1, Len(out)) = EndMarkers

\* C11: for every element class, a constructor call with arguments that satisfy the
\* invariants of the data model returns an element, and the write of a library that
\* holds the element as constructed raises nothing and ends with the ENDEL, ENDSTR and
\* ENDLIB records.
C11_SaveSucceeds ==
    /\ (built.call = "__init__" /\ ValidCall(built.ctor)) => built.err = NoErr
    /\ (built.call = "write" /\ built.xy = <<>> /\ ValidCall(built.ctor)) =>
           (built.w.err = NoErr /\ EndsWithMarkers(built.w.out))

\* C12: a BoundaryElement constructor call with fewer than 4 coordinate pairs, or with a
\* first pair that differs from the last, raises RuntimeError and returns no element.
C12_BoundaryInvalidGeometry ==
    (/\ built.call = "__init__"
     /\ built.ctor.cls = "BoundaryElement"
     /\ Pairs(built.ctor.xy)
     /\ (Len(built.ctor.xy) < 4 \/ ~Closed(built.ctor.xy))) =>
        (built.err.kind = "RuntimeError" /\ built.o = None)

\* C13: an assignment, to the coordinates of a box, an array reference or a node, of an
\* array that violates the invariant of the class raises an exception and leaves the
\* element as it was.
C13_SetterRejectsInvalid ==
    (/\ built.call = "coordinates"
     /\ built.o.cls \in {"BoxElement", "ArrayReferenceElement", "NodeElement"}
     /\ ~ValidCoordinates(built.o.cls, built.xy)) =>
        (built.err.kind # "" /\ built.o = built.before)

-----------------------------------------------------------------------------
(* Claims on the load of a library *)

\* the coordinate pairs of a loaded element
Coordinates(e) ==
    LET xy == IF e.cls = "TextElement" THEN GetAttr(GetAttr(e, "_TEXTBODY"), "_XY")
              ELSE GetAttr(e, "_XY")
    IN  [i \in 1..Len(xy.x) |-> <<xy.x[i], xy.y[i]>>]

\* the loaded element satisfies the coordinate invariant of its kind
ValidElement(e) ==
    CASE e.cls = "ArrayReferenceElement" ->
             /\ ValidCoordinates(e.cls, Coordinates(e))
             /\ GetAttr(e, "_COLROW").n_cols > 0
             /\ GetAttr(e, "_COLROW").n_rows > 0
      [] e.cls \in {"StructureReferenceElement", "TextElement"} -> Len(Coordinates(e)) = 1
      [] e.cls = "RaithCircleElement" -> TRUE
      [] OTHER -> ValidCoordinates(e.cls, Coordinates(e))

\* the elements of the structures of a loaded library
Elements(lib) ==
    {lib.items[i][2].items[j] : <<i, j>> \in
        {<<i, j>> \in (1..Len(lib.items)) \X (1..8) : j <= Len(lib.items[i][2].items)}}

\* C14: a library that a load returns holds no element that violates the coordinate
\* invariant of its kind.
C14_LoadValidatesGeometry ==
    (phase = "loaded" /\ ~Failed(loaded.r)) => \A e \in Elements(loaded.o) : ValidElement(e)

\* the string records of a loaded library: the names of the library and of its
\* structures, the names the references refer to, the strings of the texts and the
\* values of the properties
StringRecords(lib) ==
    {GetAttr(lib, "_LIBNAME")}
    \cup {GetAttr(lib.items[i][2], "_STRNAME") : i \in 1..Len(lib.items)}
    \cup {GetAttr(e, "_SNAME") :
              e \in {el \in Elements(lib) :
                        el.cls \in {"StructureReferenceElement", "ArrayReferenceElement"}}}
    \cup {GetAttr(GetAttr(e, "_TEXTBODY"), "_STRING") :
              e \in {el \in Elements(lib) : el.cls = "TextElement"}}
    \cup UNION {{e.items[k] : k \in {n \in 1..Len(e.items) : e.items[n].cls = "PROPVALUE"}} :
                  e \in Elements(lib)}

\* C15: when a loaded library has been written, every string record of it was written
\* with an even total length (header and payload), and the payload written for it reads
\* back as the string of the record.
C15_StringRecordsEven ==
    (phase = "written" /\ written.err = NoErr) =>
        \A rec \in StringRecords(loaded.o) :
            /\ (Len(pack(rec).bytes) + 4) % 2 = 0
            /\ RStripNul(pack(rec).bytes) = rec.str

-----------------------------------------------------------------------------
(* Claims on the Reader *)

\* the call returned without an exception
Returned(c) == ~Failed(c.after)

\* the length field of the frame at the position of the reader
LengthField(r) == UnpackU16(SubSeq(r.stream, r.pos + 1, r.pos + 2))

\* C16: every call of next that returns a record advances the position of the stream by
\* the value of the length field of the frame it decoded.
C16_NextAdvancesByLength ==
    \A i \in 1..Len(calls) :
        (calls[i].op = "next" /\ Returned(calls[i])) =>
            calls[i].after.pos = calls[i].before.pos + LengthField(calls[i].before)

\* C17: a revert that follows a next that returned a record puts the stream back at
\* the position before that next and sets the current record to None, and a next
\* that follows the revert returns a record of the same type, data type and payload.
C17_RevertRestores ==
    \A i \in 1..Len(calls) :
        (/\ i + 1 <= Len(calls)
         /\ calls[i].op = "next"
         /\ Returned(calls[i])
         /\ calls[i + 1].op = "revert") =>
            /\ Returned(calls[i + 1])
            /\ calls[i + 1].after.pos = calls[i].before.pos
            /\ calls[i + 1].after.current = None
            /\ (i + 2 <= Len(calls) /\ calls[i + 2].op = "next") =>
                   (Returned(calls[i + 2])
                    /\ calls[i + 2].after.current = calls[i].after.current)

\* the second record, with its payload, is returned, reverted and returned again
C17_Witness ==
    /\ Len(calls) = 4
    /\ calls[1].op = "next"
    /\ calls[2].op = "next"
    /\ calls[3].op = "revert"
    /\ calls[4].op = "next"
    /\ Returned(calls[4])
    /\ calls[4].after.current = Rec("LIBNAME", Padded(StrLIB))

-----------------------------------------------------------------------------
(* Claims on the structures and the records of a loaded and written library *)

\* the records framed in a sequence of bytes that a write has produced
RECURSIVE Frames(_)
Frames(bytes) ==
    IF Len(bytes) < 4 \/ UnpackU16(bytes) < 4 \/ UnpackU16(bytes) > Len(bytes) THEN <<>>
    ELSE <<RawRecord(bytes[3], bytes[4], SubSeq(bytes, 5, UnpackU16(bytes)))>>
         \o Frames(SubSeq(bytes, UnpackU16(bytes) + 1, Len(bytes)))

IsStructureName(rec) == rec.record_type = RecordType.STRNAME

\* the names in the STRNAME records of a sequence of records, in order
StructureNames(records) ==
    LET names == SelectSeq(records, IsStructureName)
    IN  [i \in 1..Len(names) |-> RStripNul(names[i].data)]

\* the keys of a loaded library, in the order of iteration
Keys(lib) == [i \in 1..Len(lib.items) |-> lib.items[i][1]]

\* C18: a library loaded from a valid stream holds one structure for each structure
\* block of the stream, under the name of the block and in the order of the stream, and
\* the write of the library emits the structures in that order.
C18_StructuresKept ==
    /\ (phase \in {"loaded", "written"} /\ fixture.mut = "none" /\ ~Failed(loaded.r)) =>
           /\ Keys(loaded.o) = StructureNames(Base(fixture.base))
           /\ \A i \in 1..Len(loaded.o.items) :
                  GetAttr(loaded.o.items[i][2], "_STRNAME").str = loaded.o.items[i][1]
    /\ (phase = "written" /\ fixture.mut = "none" /\ written.err = NoErr) =>
           StructureNames(Frames(written.out)) = StructureNames(Base(fixture.base))

\* the record types that the load recognizes and does not support
UnsupportedTypes ==
    {RecordType.LIBDIRSIZE, RecordType.SRFNAME, RecordType.LIBSECUR, RecordType.REFLIBS,
     RecordType.FONTS, RecordType.ATTRTABLE, RecordType.GENERATIONS, RecordType.FORMAT,
     RecordType.STRCLASS, RecordType.BGNEXTN, RecordType.ENDEXTN}

IsSupported(rec) == rec.record_type \notin UnsupportedTypes

IsUnsupported(rec) == rec.record_type \in UnsupportedTypes

\* the record types of a sequence of records, in order
Types(records) == [i \in 1..Len(records) |-> records[i].record_type]

\* C19: when a library loaded from a valid stream has been written, the record types
\* written are, in order, the record types of the supported records that were read, and
\* the last record written is ENDLIB.
C19_WriteMirrorsRead ==
    (phase = "written" /\ fixture.mut = "none" /\ written.err = NoErr) =>
        /\ Types(Frames(written.out)) = Types(SelectSeq(Base(fixture.base), IsSupported))
        /\ Types(Frames(written.out))[Len(Frames(written.out))] = RecordType.ENDLIB

IsUnsupportedWarning(wng) == wng.kind = "UnsupportedRecordWarning"

\* one UnsupportedRecordWarning for each record, in order
UnsupportedWarnings(records) ==
    [i \in 1..Len(records) |-> Warning("UnsupportedRecordWarning", <<records[i].record_type>>)]

\* the two loads end alike and return equal libraries
SameLibrary(a, b) == Failed(a.r) = Failed(b.r) /\ a.o = b.o

\* C20: the load of a valid stream issues one UnsupportedRecordWarning for each
\* unsupported record of the stream, in order, raises nothing, and returns the library
\* that the load of the stream without the unsupported records returns.
C20_UnsupportedSkipped ==
    (phase = "loaded" /\ fixture.mut = "none") =>
        /\ ~Failed(loaded.r)
        /\ SelectSeq(loaded.r.warnings, IsUnsupportedWarning)
               = UnsupportedWarnings(SelectSeq(Base(fixture.base), IsUnsupported))
        /\ SameLibrary(loaded,
                       load_from_file(Serialize(SelectSeq(Base(fixture.base), IsSupported))))

\* the library with the eleven unsupported records has been loaded
C20_Witness ==
    /\ phase = "loaded"
    /\ fixture.mut = "none"
    /\ fixture.base = "optional"
    /\ ~Failed(loaded.r)
    /\ Len(SelectSeq(loaded.r.warnings, IsUnsupportedWarning)) = 11
    /\ Len(loaded.o.items) = 1
    /\ Len(loaded.o.items[1][2].items) = 1

-----------------------------------------------------------------------------
(* The reference graph of a library *)

\* the draw of the element draws the elements of a structure at least once
Recursing(element) ==
    /\ IsReference(element)
    /\ element.cls = "ArrayReferenceElement"
           => element.attrs["_COLROW"].n_cols >= 1 /\ element.attrs["_COLROW"].n_rows >= 1

\* the names the elements of the structure refer to
References(structure) ==
    {structure.items[i].attrs["_SNAME"].str :
        i \in {j \in 1..Len(structure.items) : Recursing(structure.items[j])}}

Successors(lib, names) ==
    UNION {References(GetItem(lib, n)) : n \in {k \in names : HasKey(lib, k)}}

RECURSIVE Reachable(_, _, _)
Reachable(lib, names, fuel) ==
    IF fuel = 0 THEN names
    ELSE Reachable(lib, names \cup Successors(lib, names), fuel - 1)

\* the names Library.draw starts from
Started(lib, options) ==
    IF options.has_structures THEN {options.structures[i] : i \in 1..Len(options.structures)}
    ELSE {lib.items[i][1] : i \in 1..Len(lib.items)}

OnCycle(lib, name) == name \in Reachable(lib, Successors(lib, {name}), Len(lib.items))

Acyclic(lib, starts) == \A n \in Reachable(lib, starts, Len(lib.items)) : ~OnCycle(lib, n)

Largest(S) == IF S = {} THEN 0 ELSE CHOOSE x \in S : \A y \in S : y <= x

\* the number of references on the longest chain of references that starts in the structure
RECURSIVE LongestChain(_, _, _)
LongestChain(lib, name, fuel) ==
    IF fuel = 0 \/ ~HasKey(lib, name) THEN 0
    ELSE Largest({1 + LongestChain(lib, n, fuel - 1) : n \in References(GetItem(lib, name))})

-----------------------------------------------------------------------------
(* C21 *)

\* the library of the fixture without the transformations of its references
Untransformed == load_from_file(Serialize(DrawRecords([fixture EXCEPT !.trans = "none"]))).o

-----------------------------------------------------------------------------
(* C22 *)

\* C22: when no structure reachable from the structures the drawing starts from is on a
\* cycle of references, the flattening finishes, and the _draw of references never nests
\* deeper than the longest chain of references
C22_AcyclicTerminates ==
    (phase = "drawn" /\ Acyclic(loaded.o, Started(loaded.o, draw_options)))
        => /\ drawn.err.kind # "RecursionError"
           /\ drawn.depth <= Largest({LongestChain(loaded.o, n, Len(loaded.o.items)) :
                                         n \in Started(loaded.o, draw_options)})

\* C22 witness: a chain of two references was flattened to its end, two calls deep
C22_Witness ==
    /\ phase = "drawn" /\ fixture.kind = "nest" /\ fixture.depth = 2
    /\ fixture.leaf = "boundary"
    /\ Acyclic(loaded.o, Started(loaded.o, draw_options))
    /\ draw_options.structures = <<StrTOP>>
    /\ drawn.err = NoErr
    /\ drawn.depth = 2
    /\ Len(drawn.prims) = 1

-----------------------------------------------------------------------------
(* C23 *)

\* C23: when a structure reachable from the structures the drawing starts from is on a
\* cycle of references, the flattening does not complete and reports no cycle: the _draw
\* of the references nests until the interpreter raises RecursionError
C23_CycleRecurses ==
    (phase = "drawn" /\ ~Acyclic(loaded.o, Started(loaded.o, draw_options)))
        => /\ drawn.err = Raise("RecursionError", <<>>)
           /\ drawn.depth = RecursionLimit

\* C23 witness: two structures that place each other as arrays were drawn
C23_Witness ==
    /\ phase = "drawn" /\ fixture.kind = "cycle" /\ fixture.depth = 2
    /\ fixture.leaf = "aref" /\ fixture.cols = 2
    /\ draw_options.structures = <<StrTOP>>
    /\ drawn.err.kind = "RecursionError"
    /\ Len(drawn.prims) >= 2

-----------------------------------------------------------------------------
(* C24 *)

IsPropertyNumber(rec) == rec.cls = "PROPATTR"

\* the numbers of the properties of the element, in order
PropertyNumbers(element) ==
    LET attrs == SelectSeq(element.items, IsPropertyNumber)
    IN  [i \in 1..Len(attrs) |-> attrs[i].int]

Distinct(seq) == \A i, j \in 1..Len(seq) : seq[i] = seq[j] => i = j

\* C24: a load never accepts silently an element with two properties of the same number:
\* it raises an exception, or issues a warning, or the element it returns has no two
\* properties of the same number
C24_DuplicatePropertyFlagged ==
    (phase = "loaded" /\ fixture.mut = "none")
        => \/ Failed(loaded.r)
           \/ loaded.r.warnings # <<>>
           \/ \A e \in Elements(loaded.o) : Distinct(PropertyNumbers(e))

-----------------------------------------------------------------------------
(* C25 *)

IsUnknownDatatypeWarning(wng) == wng.kind = "UnknownDatatypeWarning"

HasUnknownDatatype(record) == record.data_type \notin DataTypeValues

\* one UnknownDatatypeWarning for each record, in order
UnknownDatatypeWarnings(records) ==
    [i \in 1..Len(records) |-> Warning("UnknownDatatypeWarning", <<records[i].data_type>>)]

\* C25: when records of an otherwise valid stream carry a data type byte outside 0..6, the
\* load raises no exception and issues one UnknownDatatypeWarning with the byte for each
\* such record, also when the byte has occurred before, and the byte is the data type of
\* the record that Record._check is given
C25_UnknownDatatypeWarned ==
    (phase = "loaded" /\ fixture.mut \in {"none", "dtype"})
        => /\ ~Failed(loaded.r)
           /\ SelectSeq(loaded.r.warnings, IsUnknownDatatypeWarning)
                  = UnknownDatatypeWarnings(SelectSeq(FxRecords(fixture), HasUnknownDatatype))
           /\ \A k \in 1..Len(FxRecords(fixture)) :
                  (HasUnknownDatatype(FxRecords(fixture)[k]) /\ IsSupported(FxRecords(fixture)[k]))
                      => \E i \in 1..Len(loaded.r.checks) :
                             /\ loaded.r.checks[i][2] = FxRecords(fixture)[k].record_type
                             /\ loaded.r.checks[i][3] = FxRecords(fixture)[k].data_type

-----------------------------------------------------------------------------
(* C26 *)

\* the text of the library with one text
TheText == GetItem(loaded.o, StrCELL).items[1]

\* C26: a text loaded from a stream without a PRESENTATION record reports the vertical
\* alignment top and the horizontal alignment left, and is drawn
C26_TextDefaultPresentation ==
    (phase = "drawn" /\ fixture.kind = "nest" /\ fixture.leaf = "text_plain"
     /\ draw_options.structures = <<StrCELL>>)
        => /\ TextBody_vertical_alignment(TheText.attrs["_TEXTBODY"])
                  = Got(VerticalAlignment.TOP)
           /\ TextBody_horizontal_alignment(TheText.attrs["_TEXTBODY"])
                  = Got(HorizontalAlignment.LEFT)
           /\ drawn.err = NoErr
           /\ Len(drawn.prims) = 1

-----------------------------------------------------------------------------
(* C27 *)

\* a / n truncated toward zero
TruncDiv(a, n) == IF a >= 0 THEN a \div n ELSE 0 - ((0 - a) \div n)

\* C27: the instances of an array are spaced by the displacement of the third point
\* divided by the rows and the displacement of the second point divided by the columns,
\* in database units and truncated toward zero, whatever the unit and the scale
C27_ArraySpacingTruncates ==
    (phase = "drawn" /\ fixture.kind = "spacing" /\ draw_options.structures = <<StrTOP>>)
        => LET k == Quarters(eight_byte_real_to_float(fixture.unit)) * draw_options.scale
               R == fixture.pts[1]
               C == <<TruncDiv(fixture.pts[2][1] - fixture.pts[1][1], fixture.cols),
                      TruncDiv(fixture.pts[2][2] - fixture.pts[1][2], fixture.cols)>>
               W == <<TruncDiv(fixture.pts[3][1] - fixture.pts[1][1], fixture.rows),
                      TruncDiv(fixture.pts[3][2] - fixture.pts[1][2], fixture.rows)>>
               pts == Square(<<0, 0>>, 10)
           IN  /\ drawn.err = NoErr
               /\ Len(drawn.prims) = fixture.rows * fixture.cols
               /\ \A n \in 1..Len(drawn.prims) :
                      LET i == (n - 1) \div fixture.cols
                          j == (n - 1) % fixture.cols
                      IN  /\ drawn.prims[n].x =
                                 [m \in 1..5 |-> (pts[m][1] + R[1] + i * W[1] + j * C[1]) * k]
                          /\ drawn.prims[n].y =
                                 [m \in 1..5 |-> (pts[m][2] + R[2] + i * W[2] + j * C[2]) * k]

-----------------------------------------------------------------------------
(* C30 *)

\* the member of PathType for the PATHTYPE record of the leaf
LeafPathType(leaf) ==
    CASE leaf = "path_butt" -> "BUTT"
      [] leaf = "path_round" -> "ROUND"
      [] leaf = "path" -> "SQUARE"

\* C30: a path loaded with the PATHTYPE 0, 1 or 2 reports the pathtype BUTT, ROUND or
\* SQUARE, the member of PathType that a constructed path reports, and is stroked with
\* that line cap
C30_LoadedPathType ==
    (phase = "drawn" /\ fixture.kind = "nest"
     /\ fixture.leaf \in {"path", "path_butt", "path_round"}
     /\ draw_options.structures = <<StrCELL>>)
        => /\ PathElement_pathtype(GetItem(loaded.o, StrCELL).items[1])
                  = PathTypeMember(PathType[LeafPathType(fixture.leaf)])
           /\ drawn.err = NoErr
           /\ Len(drawn.prims) = 1
           /\ drawn.prims[1].cap = LeafPathType(fixture.leaf)

-----------------------------------------------------------------------------
(* C28 *)

\* C28: PRESENTATION.read decodes, from a word whose reserved bits are clear and whose
\* alignment fields are both in use, the font as the word & 0x30, the vertical alignment
\* as the word & 0x0C and the horizontal alignment as the word & 0x03
C28_PresentationDecoding ==
    (/\ word.cls = "PRESENTATION" /\ flags # None
     /\ BitAnd(word.data, 12) \in {VerticalAlignment[n] : n \in DOMAIN VerticalAlignment}
     /\ BitAnd(word.data, 3) \in {HorizontalAlignment[n] : n \in DOMAIN HorizontalAlignment})
        => /\ flags.font = BitAnd(word.data, 48)
           /\ flags.vertical_alignment = BitAnd(word.data, 12)
           /\ flags.horizontal_alignment = BitAnd(word.data, 3)

-----------------------------------------------------------------------------
(* C29 *)

\* C29: STRANS.read takes the reflection from the leftmost bit of the word (0x8000), the
\* absolute magnification from bit 13 (0x0004) and the absolute angle from bit 14
\* (0x0002), and from no other bit
C29_StransDecoding ==
    (word.cls = "STRANS" /\ flags # None)
        => /\ flags.reflect_about_x = BitSet(word.data, 32768)
           /\ flags.absolute_magnification = BitSet(word.data, 4)
           /\ flags.absolute_angle = BitSet(word.data, 2)

-----------------------------------------------------------------------------
(* C31 *)

\* the offsets of the frames of the records in the stream
RECURSIVE FrameOffsets(_, _)
FrameOffsets(records, at) ==
    IF records = <<>> THEN <<>>
    ELSE <<at>> \o FrameOffsets(Tail(records), at + Len(Frame(Head(records))))

\* the number of reads at the offset
ReadsAt(reads, at) == Cardinality({i \in 1..Len(reads) : reads[i] = at})

\* C31: during a load no record is read from before the start of the record read last,
\* and none is read more than twice; in the load of a valid stream every record is read,
\* and the records that have a record class are decoded once each, in the order of the
\* stream
C31_BoundedLookahead ==
    phase = "loaded" =>
        /\ \A i \in 1..(Len(loaded.r.reads) - 1) : loaded.r.reads[i + 1] >= loaded.r.reads[i]
        /\ \A i \in 1..Len(loaded.r.reads) : ReadsAt(loaded.r.reads, loaded.r.reads[i]) <= 2
        /\ fixture.mut \in {"none", "dtype"} =>
               /\ ~Failed(loaded.r)
               /\ {loaded.r.reads[i] : i \in 1..Len(loaded.r.reads)}
                      = {FrameOffsets(FxRecords(fixture), 0)[k] : k \in 1..Len(FxRecords(fixture))}
               /\ [i \in 1..Len(loaded.r.checks) |-> loaded.r.checks[i][2]]
                      = Types(SelectSeq(FxRecords(fixture), IsSupported))

\* C31 witness: in the load of the library with references, the first record after a
\* structure name was read, reverted and read again, and the last record was read once
C31_Witness ==
    /\ phase = "loaded" /\ fixture.base = "refs" /\ fixture.mut = "none"
    /\ ~Failed(loaded.r)
    /\ \E i \in 1..(Len(loaded.r.reads) - 1) : loaded.r.reads[i + 1] = loaded.r.reads[i]
    /\ loaded.r.reads[Len(loaded.r.reads)] + 4 = Len(input)
    /\ loaded.r.pos = Len(input)

-----------------------------------------------------------------------------
(* C32 *)

\* the layer and the first point of each primitive
Origins(prims) == [n \in 1..Len(prims) |-> <<prims[n].layer, prims[n].x[1], prims[n].y[1]>>]

\* the square and the path of CELL placed at the point
CellAt(pt) == <<<<5, pt[1], pt[2]>>, <<6, pt[1], pt[2]>>>>

\* CELL placed at the cells of the array, the rows outside and the columns inside
RECURSIVE CellsFrom(_, _, _, _)
CellsFrom(n, R, cols, rows) ==
    IF n > rows * cols THEN <<>>
    ELSE CellAt(<<R[1] + ((n - 1) % cols) * 100, R[2] + ((n - 1) \div cols) * 100>>)
         \o CellsFrom(n + 1, R, cols, rows)

\* what TOP puts on the surfaces: its square, the cells of the array, the single placement
\* of CELL, and its box, at the scale k
TopOrigins(d, k) ==
    LET o == <<<<1, 0, 0>>>> \o CellsFrom(1, d.pts[1], d.cols, d.rows) \o CellAt(d.pts[2])
             \o <<<<7, 0, 0>>>>
    IN  [n \in 1..Len(o) |-> <<o[n][1], o[n][2] * k, o[n][3] * k>>]

-----------------------------------------------------------------------------
\* C33: Library.draw is read-only on the library: whether it ends normally or with an
\* exception, the library it leaves is the library it was given (the structures, their
\* elements, and the coordinates, layer, reference name and row and column counts of
\* each element); what Library.draw draws is a function of that library and the options,
\* so that drawing the library it leaves with the same options draws the same
C33_DrawReadOnly ==
    [][phase' = "drawn" => loaded' = loaded]_vars

\* a library whose references nest has been drawn through the references
C33_Witness ==
    /\ phase = "drawn"
    /\ fixture.kind = "nest"
    /\ drawn.err = NoErr
    /\ drawn.depth >= 2
    /\ drawn.prims # <<>>


\* C34: a BoundaryElement constructor call with an array of at least 4 coordinate pairs
\* whose first pair equals the last raises nothing and returns an element whose
\* coordinates are the columns of that array.
C34_ValidBoundaryConstructed ==
    (/\ built.call = "__init__"
     /\ built.ctor.cls = "BoundaryElement"
     /\ Pairs(built.ctor.xy)
     /\ Len(built.ctor.xy) >= 4
     /\ Closed(built.ctor.xy)) =>
        /\ built.err = NoErr
        /\ built.o # None
        /\ Coordinates(built.o) = built.ctor.xy


\* C35: after a load, and after an assignment to the name of a structure of the loaded
\* library, every key of the library maps to a structure whose name is the key.
C35_NameIndexConsistent ==
    (phase \in {"loaded", "renamed"} /\ ~Failed(loaded.r)) =>
        \A i \in 1..Len(loaded.o.items) :
            GetAttr(loaded.o.items[i][2], "_STRNAME").str = loaded.o.items[i][1]


\* C36: the datatype of a constructed path is the member the DATATYPE record was made
\* with; after an assignment the datatype is the member assigned, it is the payload of the
\* DATATYPE record, nothing else of the element has changed, and the record is written
\* with the data type of a two-byte integer in its header.
C36_DatatypeAccessor ==
    /\ (built.call = "__init__" /\ built.o # None /\ built.o.cls = "PathElement") =>
           Element_datatype(built.o) = DataType.NO_DATA_PRESENT
    /\ built.call = "datatype" =>
           /\ Element_datatype(built.o) = built.value[1]
           /\ built.o = SetAttr(built.before, "_DATATYPE",
                                [cls |-> "DATATYPE", type |-> built.value[1]])
           /\ Record_write(Writer, built.o.attrs["_DATATYPE"]).out
                  = <<0, 6, RecordType.DATATYPE, DataType.TWO_BYTE_SIGNED_INTEGER>>
                    \o PackI16(built.value[1])

\* C38: the width of a constructed path is the width given to the constructor, 0 when
\* none was given; after an assignment the width is the width assigned, 0 included.
C38_WidthAccessor ==
    /\ (built.call = "__init__" /\ built.o # None /\ built.o.cls = "PathElement") =>
           PathElement_width(built.o) = built.ctor.width
    /\ built.call = "width" => PathElement_width(built.o) = built.value[1]


\* the points R, R + cols * C, R + rows * W of the array lattice
Lattice(R, rows, cols, W, C) ==
    <<R, <<R[1] + cols * C[1], R[2] + cols * C[2]>>, <<R[1] + rows * W[1], R[2] + rows * W[2]>>>>

\* R + i * W + j * C for the rows i and the columns j, the rows outside, in quarters
LatticeInstances(R, rows, cols, W, C) ==
    [n \in 1..(rows * cols) |->
        <<4 * (R[1] + ((n - 1) \div cols) * W[1] + ((n - 1) % cols) * C[1]),
          4 * (R[2] + ((n - 1) \div cols) * W[2] + ((n - 1) % cols) * C[2])>>]

\* C37: an ArrayReferenceElement constructed from the reference point R, the dimensions
\* (rows, cols), the row spacing W and the column spacing C holds the coordinates
\* R, R + cols * C, R + rows * W, and its _draw, at the unit 1.0 and the scale 1, places
\* the instances at R + i * W + j * C.
C37_ArrayConstructor ==
    (built.call = "__init__" /\ built.ctor.cls = "ArrayReferenceElement") =>
        /\ built.err = NoErr
        /\ built.o # None
        /\ Coordinates(built.o)
               = Lattice(built.ctor.point, built.ctor.dimensions[1], built.ctor.dimensions[2],
                         RowSpacing, ColSpacing)
        /\ Instances(Scaled(built.o.attrs["_XY"], 4).x, Scaled(built.o.attrs["_XY"], 4).y,
                     built.o.attrs["_COLROW"].n_rows, built.o.attrs["_COLROW"].n_cols)
               = LatticeInstances(built.ctor.point, built.ctor.dimensions[1],
                                  built.ctor.dimensions[2], RowSpacing, ColSpacing)


\* the bits of the word that the read of the record class looks at
ReadBits(cls) ==
    CASE cls = "PRESENTATION" -> {32, 16, 8, 4, 2, 1}
      [] cls = "STRANS" -> {16384, 2, 1}
      [] cls = "ELFLAGS" -> {2, 1}

\* only bits that the read looks at are set in the word
OnlyReadBits(w) == w.data \in {Sum(S) : S \in SUBSET ReadBits(w.cls)}

\* C39: for a PRESENTATION, STRANS or ELFLAGS record read from a word, pack returns a
\* 16-bit word (it does not raise struct.error), the word is the word read when only
\* bits that the read looks at are set in it, and the read of the packed word returns a
\* record object with the same flags.
C39_FlagsRoundTrip ==
    packed # None =>
        /\ packed.ok
        /\ OnlyReadBits(word) => packed.bytes = PackI16(word.data)
        /\ Record_read(word.cls, Reader(<<>>), Rec(word.cls, packed.bytes)).o = flags

=============================================================================
